---- MODULE Spec2Model ----
(***************************************************************************)
(* A model of the conversational recommendation engine: the two engine     *)
(* variants (chatbot.py, the database-verified one, and chabot.py, the one *)
(* the websocket manager imports), the conversation store and the pure     *)
(* helpers they use.  Texts are sequences of one-character strings so that *)
(* lower(), strip(), split() and the substring test are modelled by what   *)
(* they do.                                                                *)
(***************************************************************************)
EXTENDS Integers, Sequences, FiniteSets, TLC

VARIABLES
    engine,             \* which ProfessionalSalesAI class the instance is
    conversation_data,  \* self.conversation_data of the engine instance
    store,              \* the client's pickle file of ConversationMemory
    ret,                \* what the last detect_intent_and_respond call returned
    turn,               \* what happened during that call (calls made, inputs)
    now,                \* the clock behind datetime.now()
    turns,              \* number of messages handled by this engine instance
    prior,              \* number of exchanges an earlier process left in the store
    normal,             \* every turn so far completed normally, without exit or clear
    last,               \* the operation that led to this state
    fin,                \* input of the pure function being applied
    fout,               \* its output
    net                 \* the transport: connections, engine registry, files, frames sent

vars == <<engine, conversation_data, store, ret, turn, now, turns, prior, normal,
          last, fin, fout, net>>

(***************************************************************************)
(* Program constants and model bounds                                      *)
(***************************************************************************)
MAX_RESULTS == 3
MAX_CONVERSATION_HISTORY == 50

MaxWords == 5        \* generated exit-check inputs have up to this many words
MaxCands == 5        \* generated retrieval lists have up to this many entries
MaxTurns == 2        \* messages handled by one engine instance in a run
MaxProfileTurns == 3
MaxStoreOps == 4           \* operations on the store in a run of the store alone
MaxFrames == 4       \* connects, disconnects, inbound frames and REST calls in a run of the transport
MaxHighlights == 4   \* highlights in a generated item
MaxRaceTurns == 1    \* messages handled in a run with a clear between the awaits

(***************************************************************************)
(* Text helpers: str.lower, str.strip, str.split, the `in` substring test  *)
(***************************************************************************)
UpperCase == <<"A","B","C","D","E","F","G","H","I","J","K","L","M",
               "N","O","P","Q","R","S","T","U","V","W","X","Y","Z">>
LowerCase == <<"a","b","c","d","e","f","g","h","i","j","k","l","m",
               "n","o","p","q","r","s","t","u","v","w","x","y","z">>
Whitespace == {" ", "\t", "\n"}

LowerChar(c) ==
    IF \E i \in 1..Len(UpperCase) : UpperCase[i] = c
    THEN LowerCase[CHOOSE i \in 1..Len(UpperCase) : UpperCase[i] = c]
    ELSE c

Lower(t) == [i \in 1..Len(t) |-> LowerChar(t[i])]

RECURSIVE LStrip(_)
LStrip(t) == IF t # <<>> /\ Head(t) \in Whitespace THEN LStrip(Tail(t)) ELSE t

RECURSIVE RStrip(_)
RStrip(t) ==
    IF t # <<>> /\ t[Len(t)] \in Whitespace
    THEN RStrip(SubSeq(t, 1, Len(t) - 1))
    ELSE t

Strip(t) == RStrip(LStrip(t))

\* str.split() without arguments: the maximal runs of non-whitespace
RECURSIVE SplitFrom(_, _, _)
SplitFrom(t, cur, acc) ==
    IF t = <<>>
    THEN IF cur = <<>> THEN acc ELSE Append(acc, cur)
    ELSE IF Head(t) \in Whitespace
         THEN SplitFrom(Tail(t), <<>>, IF cur = <<>> THEN acc ELSE Append(acc, cur))
         ELSE SplitFrom(Tail(t), Append(cur, Head(t)), acc)

Split(t) == SplitFrom(t, <<>>, <<>>)

\* `p in t` for strings
Contains(t, p) ==
    \E i \in 1..(Len(t) - Len(p) + 1) : SubSeq(t, i, i + Len(p) - 1) = p

(***************************************************************************)
(* check_exit_intent                                                       *)
(***************************************************************************)
exit_phrases == <<
    <<"s","t","o","p">>,
    <<"e","x","i","t">>,
    <<"q","u","i","t">>,
    <<"g","o","o","d","b","y","e">>,
    <<"b","y","e">>,
    <<"t","h","a","t","'","s"," ","a","l","l">>,
    <<"t","h","a","n","k"," ","y","o","u"," ","b","y","e">>,
    <<"e","n","d"," ","c","o","n","v","e","r","s","a","t","i","o","n">>,
    <<"t","h","a","n","k","s"," ","b","y","e">> >>

check_exit_intent_strict(text) ==
    LET text_lower == Strip(Lower(text))
    IN  \/ \E k \in 1..Len(exit_phrases) : exit_phrases[k] = text_lower
        \/ \E k \in 1..Len(exit_phrases) :
              /\ Contains(text_lower, exit_phrases[k])
              /\ Len(Split(text_lower)) < 4

check_exit_intent(text) ==
    LET text_lower == Strip(Lower(text))
    IN  \/ \E k \in 1..Len(exit_phrases) : exit_phrases[k] = text_lower
        \/ \E k \in 1..Len(exit_phrases) :
              /\ Contains(text_lower, exit_phrases[k])
              /\ Len(Split(text_lower)) <= 4

(***************************************************************************)
(* Catalog records and retrieval candidates                                *)
(***************************************************************************)
CatalogIds == {"e1", "e2", "e3", "e4"}

CatalogRecord(i) ==
    [id |-> i, title |-> "title of " \o i, category |-> "Adventure",
     location |-> "Goa", budget |-> "5000", description |-> "description of " \o i]

\* one formatted result of search_experiences
Candidate(i, s) == [metadata |-> CatalogRecord(i), similarity_score |-> s]

\* similarity scores, round((1 - distance) * 100, 2) in hundredths
Scores == {7250, 8800}

CandidatePool == {Candidate(i, s) : i \in CatalogIds, s \in Scores}

IdsOf(cands) == {cands[k].metadata.id : k \in 1..Len(cands)}

(***************************************************************************)
(* Deduplication and ranking of the search results                         *)
(***************************************************************************)
IndexOfId(seq, i) == CHOOSE k \in 1..Len(seq) : seq[k].metadata.id = i

\* the replacement test of the deduplication loop, with the comparison dropped
KeepLast(old, new) == TRUE

\* `result['similarity_score'] > unique_experiences[exp_id]['similarity_score']`
Replaces(old, new) == new.similarity_score > old.similarity_score

\* the dict unique_experiences, as the sequence of its values in insertion order
RECURSIVE Deduplicate(_, _)
Deduplicate(search_results, unique) ==
    IF search_results = <<>> THEN unique
    ELSE LET result == Head(search_results)
             exp_id == result.metadata.id
         IN  IF exp_id \notin IdsOf(unique)
             THEN Deduplicate(Tail(search_results), Append(unique, result))
             ELSE LET k == IndexOfId(unique, exp_id)
                  IN  IF Replaces(unique[k], result)
                      THEN Deduplicate(Tail(search_results), [unique EXCEPT ![k] = result])
                      ELSE Deduplicate(Tail(search_results), unique)

\* sorted(..., key=similarity_score, reverse=True): stable, equal keys keep their order
RECURSIVE InsertDesc(_, _)
InsertDesc(sorted, c) ==
    IF sorted = <<>> THEN <<c>>
    ELSE IF Head(sorted).similarity_score >= c.similarity_score
         THEN <<Head(sorted)>> \o InsertDesc(Tail(sorted), c)
         ELSE <<c>> \o sorted

RECURSIVE SortDesc(_, _)
SortDesc(seq, acc) ==
    IF seq = <<>> THEN acc ELSE SortDesc(Tail(seq), InsertDesc(acc, Head(seq)))

FirstN(seq, n) == SubSeq(seq, 1, IF Len(seq) < n THEN Len(seq) ELSE n)

\* top_experiences of _generate_experience_response (the same in both engines)
TopExperiences(search_results) ==
    FirstN(SortDesc(Deduplicate(search_results, <<>>), <<>>), MAX_RESULTS)

(***************************************************************************)
(* _extract_user_preferences                                               *)
(***************************************************************************)
\* interest_keywords, in the dict's iteration order
interest_keywords == <<
    [interest |-> "adventure", keywords |-> {
        <<"a","d","v","e","n","t","u","r","e">>,
        <<"t","h","r","i","l","l">>,
        <<"e","x","c","i","t","i","n","g">>,
        <<"a","c","t","i","o","n">>,
        <<"t","r","e","k">>,
        <<"c","l","i","m","b">>,
        <<"r","a","f","t">>,
        <<"p","a","r","a","g","l","i","d","i","n","g">>}],
    [interest |-> "relaxation", keywords |-> {
        <<"r","e","l","a","x">>,
        <<"p","e","a","c","e","f","u","l">>,
        <<"c","a","l","m">>,
        <<"q","u","i","e","t">>,
        <<"s","e","r","e","n","e">>,
        <<"s","p","a">>,
        <<"y","o","g","a">>,
        <<"m","e","d","i","t","a","t","i","o","n">>}],
    [interest |-> "culture", keywords |-> {
        <<"c","u","l","t","u","r","e">>,
        <<"h","i","s","t","o","r","i","c","a","l">>,
        <<"t","r","a","d","i","t","i","o","n","a","l">>,
        <<"h","e","r","i","t","a","g","e">>,
        <<"t","e","m","p","l","e">>,
        <<"m","o","n","u","m","e","n","t">>}],
    [interest |-> "nature", keywords |-> {
        <<"n","a","t","u","r","e">>,
        <<"o","u","t","d","o","o","r">>,
        <<"f","o","r","e","s","t">>,
        <<"m","o","u","n","t","a","i","n">>,
        <<"b","e","a","c","h">>,
        <<"w","i","l","d","l","i","f","e">>,
        <<"c","a","m","p","i","n","g">>}],
    [interest |-> "romantic", keywords |-> {
        <<"r","o","m","a","n","t","i","c">>,
        <<"h","o","n","e","y","m","o","o","n">>,
        <<"c","o","u","p","l","e">>,
        <<"a","n","n","i","v","e","r","s","a","r","y">>,
        <<"d","a","t","e">>,
        <<"c","o","u","p","l","e","s">>}],
    [interest |-> "luxury", keywords |-> {
        <<"l","u","x","u","r","y">>,
        <<"p","r","e","m","i","u","m">>,
        <<"e","x","c","l","u","s","i","v","e">>,
        <<"v","i","p">>,
        <<"5"," ","s","t","a","r">>,
        <<"r","e","s","o","r","t">>}] >>

location_keywords == <<
    [location |-> "goa", keyword |-> <<"g","o","a">>],
    [location |-> "kerala", keyword |-> <<"k","e","r","a","l","a">>],
    [location |-> "himachal", keyword |-> <<"h","i","m","a","c","h","a","l">>],
    [location |-> "rajasthan", keyword |-> <<"r","a","j","a","s","t","h","a","n">>],
    [location |-> "mumbai", keyword |-> <<"m","u","m","b","a","i">>],
    [location |-> "delhi", keyword |-> <<"d","e","l","h","i">>],
    [location |-> "bangalore", keyword |-> <<"b","a","n","g","a","l","o","r","e">>] >>

Digits == {"0","1","2","3","4","5","6","7","8","9"}

\* the characters \s matches
RegexSpace == {" ", "\t", "\n", "\r"}

Budget == <<"b","u","d","g","e","t">>

OccursAt(t, p, i) == i >= 1 /\ i + Len(p) - 1 <= Len(t) /\ SubSeq(t, i, i + Len(p) - 1) = p

\* `.` does not match a line break
NoNewline(t, a, b) == \A k \in a..b : t[k] # "\n"

RECURSIVE DigitRunEnd(_, _)
DigitRunEnd(t, j) == IF j < Len(t) /\ t[j + 1] \in Digits THEN DigitRunEnd(t, j + 1) ELSE j

\* (\d+) starting at j, greedy
DigitRun(t, j) == SubSeq(t, j, DigitRunEnd(t, j))

RECURSIVE SkipSpace(_, _)
SkipSpace(t, j) == IF j <= Len(t) /\ t[j] \in RegexSpace THEN SkipSpace(t, j + 1) ELSE j

Least(S) == CHOOSE x \in S : \A y \in S : x <= y

NoMatch == [found |-> FALSE, group |-> <<>>]

\* re.search(r'budget.*?(\d+)', t)
SearchBudgetThenNumber(t) ==
    LET digitAfter(i) == {j \in (i + 6)..Len(t) : t[j] \in Digits /\ NoNewline(t, i + 6, j - 1)}
        starts == {i \in 1..Len(t) : OccursAt(t, Budget, i) /\ digitAfter(i) # {}}
    IN  IF starts = {} THEN NoMatch
        ELSE [found |-> TRUE, group |-> DigitRun(t, Least(digitAfter(Least(starts))))]

\* re.search(r'(\d+).*?budget', t)
SearchNumberThenBudget(t) ==
    LET starts == {i \in 1..Len(t) :
                     /\ t[i] \in Digits
                     /\ \E p \in (i + 1)..Len(t) : OccursAt(t, Budget, p) /\ NoNewline(t, i, p - 1)}
    IN  IF starts = {} THEN NoMatch
        ELSE [found |-> TRUE, group |-> DigitRun(t, Least(starts))]

\* re.search(prefix + r'\s*(\d+)', t) for a literal prefix, optionally followed by a dot
SearchMarkedNumber(t, prefix, dot) ==
    LET after(i) == IF dot /\ i + Len(prefix) <= Len(t) /\ t[i + Len(prefix)] = "."
                    THEN {i + Len(prefix), i + Len(prefix) + 1}
                    ELSE {i + Len(prefix)}
        digitAt(i) == {SkipSpace(t, a) : a \in after(i)} \cap {j \in 1..Len(t) : t[j] \in Digits}
        starts == {i \in 1..Len(t) : OccursAt(t, prefix, i) /\ digitAt(i) # {}}
    IN  IF starts = {} THEN NoMatch
        ELSE [found |-> TRUE, group |-> DigitRun(t, Least(digitAt(Least(starts))))]

\* budget_patterns, tried in order; the first that matches wins
budget_patterns(t) == <<
    SearchBudgetThenNumber(t),
    SearchNumberThenBudget(t),
    SearchMarkedNumber(t, <<"₹">>, FALSE),
    SearchMarkedNumber(t, <<"r","s">>, TRUE) >>

\* any(keyword in input_lower for keyword in keywords)
MentionsInterest(input_lower, k) ==
    \E w \in interest_keywords[k].keywords : Contains(input_lower, w)

\* location in input_lower
MentionsLocation(input_lower, k) == Contains(input_lower, location_keywords[k].keyword)

\* the budget the loop over budget_patterns assigns, if a pattern matches
BudgetIn(input_lower) ==
    LET matches == budget_patterns(input_lower)
        hits == {k \in 1..Len(matches) : matches[k].found}
    IN  IF hits = {} THEN NoMatch
        ELSE [found |-> TRUE, group |-> <<"₹">> \o matches[Least(hits)].group]

\* what a text mentions: the interests and locations (by index) and the budget
Mentions(user_input) ==
    LET input_lower == Lower(user_input)
    IN  [interests |-> {k \in 1..Len(interest_keywords) : MentionsInterest(input_lower, k)},
         locations |-> {k \in 1..Len(location_keywords) : MentionsLocation(input_lower, k)},
         budget |-> BudgetIn(input_lower)]

RECURSIVE AddInterests(_, _, _)
AddInterests(interests, mentioned, k) ==
    IF k > Len(interest_keywords) THEN interests
    ELSE LET interest == interest_keywords[k].interest
             present == \E x \in 1..Len(interests) : interests[x] = interest
         IN  AddInterests(IF k \in mentioned /\ ~present THEN Append(interests, interest) ELSE interests,
                          mentioned, k + 1)

RECURSIVE AddLocations(_, _, _)
AddLocations(locations, mentioned, k) ==
    IF k > Len(location_keywords) THEN locations
    ELSE LET location == location_keywords[k].location
             present == \E x \in 1..Len(locations) : locations[x] = location
         IN  AddLocations(IF k \in mentioned /\ ~present THEN Append(locations, location) ELSE locations,
                          mentioned, k + 1)

\* the extraction that finds nothing
extract_nothing(profile, found) == profile

\* the extraction with a budget that is set once and then kept
extract_user_preferences_first(profile, found) ==
    [interests |-> AddInterests(profile.interests, found.interests, 1),
     budget_range |-> IF found.budget.found /\ profile.budget_range = <<>>
                      THEN found.budget.group ELSE profile.budget_range,
     preferred_locations |-> AddLocations(profile.preferred_locations, found.locations, 1)]

\* the user_profile after _extract_user_preferences on a text that mentions `found`
extract_user_preferences(profile, found) ==
    [interests |-> AddInterests(profile.interests, found.interests, 1),
     budget_range |-> IF found.budget.found THEN found.budget.group ELSE profile.budget_range,
     preferred_locations |-> AddLocations(profile.preferred_locations, found.locations, 1)]

(***************************************************************************)
(* Conversation data, turns and payloads                                   *)
(***************************************************************************)
PayloadKeys == {"conversational_intro", "experiences", "conversational_closing"}

\* experience_data = None
NoData ==
    [null |-> TRUE, keys |-> {}, conversational_intro |-> "", experiences |-> <<>>,
     conversational_closing |-> ""]

\* a dict with the given keys
Data(keys, intro, experiences, closing) ==
    [null |-> FALSE, keys |-> keys, conversational_intro |-> intro,
     experiences |-> experiences, conversational_closing |-> closing]

\* Python truth value of experience_data: None and the empty dict are false
Truthy(d) == ~d.null /\ d.keys # {}

NoMetadata == [present |-> FALSE, last_updated |-> 0, total_exchanges |-> 0, session_count |-> 0]

\* _get_default_conversation_data at time t
DefaultConversationData(t) ==
    [history |-> <<>>,
     user_profile |-> [interests |-> <<>>, budget_range |-> <<>>, preferred_locations |-> <<>>],
     session_count |-> 0,
     first_interaction |-> t,
     last_interaction |-> t,
     total_messages |-> 0,
     previously_discussed_experiences |-> <<>>,
     _metadata |-> NoMetadata]

UserTurn(user_input, t) ==
    [role |-> "user", content |-> user_input, timestamp |-> t,
     experience_data |-> NoData, data_source |-> "absent"]

\* the assistant turn of _save_to_memory; only chatbot.py records a data_source
AssistantTurn(eng, assistant_response, experience_data, t) ==
    [role |-> "assistant", content |-> assistant_response, timestamp |-> t,
     experience_data |-> experience_data,
     data_source |-> IF eng = "chatbot"
                     THEN IF Truthy(experience_data) THEN "database_verified" ELSE "conversational"
                     ELSE "absent"]

(***************************************************************************)
(* ConversationMemory: the client's pickle file                            *)
(***************************************************************************)
NoFile == [state |-> "absent", data |-> DefaultConversationData(0)]

WriteOutcomes == {"ok", "open_failed", "dump_failed"}

\* a save that writes an empty conversation instead of the caller's
save_conversation_empty(cd, st, t, w) ==
    [cd |-> cd, store |-> [state |-> "ok", data |-> DefaultConversationData(t)]]

\* a save that, when the write fails, leaves the caller with an empty conversation
save_conversation_wiping(cd, st, t, w) ==
    IF w = "ok"
    THEN LET stamped == [cd EXCEPT !._metadata =
                            [present |-> TRUE, last_updated |-> t,
                             total_exchanges |-> Len(cd.history),
                             session_count |-> cd.session_count + 1]]
         IN  [cd |-> stamped, store |-> [state |-> "ok", data |-> stamped]]
    ELSE [cd |-> DefaultConversationData(t), store |-> st]

\* save_conversation: the metadata is written into the caller's dict, then the file
\* is opened for writing (which truncates it) and the dict is pickled into it
save_conversation(cd, st, t, w) ==
    LET stamped == [cd EXCEPT !._metadata =
                       [present |-> TRUE, last_updated |-> t,
                        total_exchanges |-> Len(cd.history),
                        session_count |-> cd.session_count + 1]]
    IN  [cd |-> stamped,
         store |-> CASE w = "ok" -> [state |-> "ok", data |-> stamped]
                     [] w = "open_failed" -> st
                     [] w = "dump_failed" -> [state |-> "corrupt", data |-> DefaultConversationData(0)]]

\* a load that hands out whatever the file holds, read or not
load_conversation_unchecked(st, t, readOk) == st.data

\* load_conversation: the stored dict, or the default on a missing or unreadable file
load_conversation(st, t, readOk) ==
    IF st.state = "ok" /\ readOk THEN st.data ELSE DefaultConversationData(t)

\* delete_conversation: unlink if the file exists; a failure is logged and swallowed
delete_conversation(st, delOk) ==
    IF st.state # "absent" /\ delOk THEN NoFile ELSE st

\* get_conversation_stats: a read of the file, it changes nothing
get_conversation_stats(st, t, readOk) ==
    LET cd == load_conversation(st, t, readOk)
    IN  [total_messages |-> cd.total_messages,
         session_count |-> cd.session_count,
         first_interaction |-> cd.first_interaction,
         last_interaction |-> cd.last_interaction,
         previously_discussed |-> Len(cd.previously_discussed_experiences),
         known_interests |-> Len(cd.user_profile.interests)]

(***************************************************************************)
(* Messages, generator outputs and index outputs of one turn               *)
(***************************************************************************)
\* the user messages of the model; m_number is a JSON number sent as "message"
MessageText ==
    [m_bye |-> <<"t","h","a","n","k","s",","," ","b","y","e">>,
     m_goa |-> <<"I"," ","w","a","n","t"," ","a","n"," ","a","d","v","e","n","t","u","r","e"," ",
                 "t","r","i","p"," ","i","n"," ","G","o","a"," ","u","n","d","e","r"," ",
                 "5","0","0","0">>,
     m_number |-> <<>>,
     m_bye_budget |-> <<"g","o","a"," ","b","u","d","g","e","t"," ","9","0","0","0"," ","b","y","e">>,
     p_kerala |-> <<"M","y"," ","b","u","d","g","e","t"," ","i","s"," ","3","0","0","0"," ",
                    "f","o","r"," ","a"," ","b","e","a","c","h"," ","t","r","e","k"," ",
                    "i","n"," ","K","e","r","a","l","a">>,
     p_relax |-> <<"r","e","l","a","x"," ","i","n"," ","G","o","a"," ","f","o","r"," ",
                   "R","s","."," ","7","0","0","0">>]

Messages == {"m_bye", "m_goa", "m_number", "m_bye_budget"}

\* the messages of the runs that follow the profile
ProfileMessages == {"m_bye", "m_goa", "m_bye_budget", "p_kerala", "p_relax"}

AllMessages == Messages \cup ProfileMessages

IsString(m) == m # "m_number"

\* the exit check that never matches
ExitIntentNever == [m \in AllMessages |-> FALSE]

\* check_exit_intent and the keyword scans of each message, computed once
ExitIntent == [m \in AllMessages |-> IsString(m) /\ check_exit_intent(MessageText[m])]

MessageMentions == [m \in AllMessages |-> Mentions(MessageText[m])]

\* an item of a generated "experiences" list
GenItem(isdict, id, title, category, location, budget, description) ==
    [isdict |-> isdict, id |-> id, title |-> title, category |-> category,
     location |-> location, budget |-> budget, description |-> description,
     similarity_score |-> 8500, discussed_at |-> <<>>]

\* the item the prompt asks for: the candidate's fields copied
Faithful(i) ==
    LET r == CatalogRecord(i)
    IN  GenItem(TRUE, r.id, r.title, r.category, r.location, "₹" \o r.budget, r.description)

\* an item the index never returned
Fabricated == GenItem(TRUE, "e9", "Moon Walk", "Space", "Moon", "₹1", "invented")

\* a retrieved id under invented fields
Embellished(i) == GenItem(TRUE, i, "Better " \o i, "Luxury", "Paris", "₹1", "invented")

\* a list element that is no JSON object
NotAnObject == GenItem(FALSE, "", "", "", "", "", "")

\* a list longer than the MAX_RESULTS candidates offered, naming two of them twice
Overlong == <<Faithful("e1"), Faithful("e3"), Faithful("e1"), Faithful("e3")>>

GenLists ==
    {<<>>, <<Fabricated>>, <<Embellished("e1"), Fabricated, Faithful("e1")>>, <<NotAnObject>>,
     Overlong}

\* what generate_content does for the recommendation prompt: it raises, or returns a
\* text from which _extract_json_safely gets nothing (json |-> NoData) or a dict
GenOutcomes ==
    {[raised |-> TRUE, json |-> NoData], [raised |-> FALSE, json |-> NoData],
     [raised |-> FALSE, json |-> Data({"conversational_intro"}, "generated intro", <<>>, "")]}
    \cup {[raised |-> FALSE,
           json |-> Data(PayloadKeys, "generated intro", l, "generated closing")] : l \in GenLists}

\* what generate_content does for the intent prompt: it raises or returns a text
IntentOutcomes ==
    {[raised |-> TRUE, text |-> <<>>],
     [raised |-> FALSE, text |-> <<"e","x","p","e","r","i","e","n","c","e","_","r","e","q","u","e","s","t">>],
     [raised |-> FALSE, text |-> <<"c","a","s","u","a","l","_","c","h","a","t">>]}

\* what generate_content does for the casual and the engagement prompt
ReplyOutcomes ==
    {[raised |-> TRUE, text |-> ""], [raised |-> FALSE, text |-> "generated reply"]}

\* what search_experiences returns; the empty list also stands for a failed query
SearchOutcomes ==
    {<<>>,
     <<Candidate("e1", 7250), Candidate("e2", 7250), Candidate("e1", 8800),
       Candidate("e3", 8800), Candidate("e4", 7250)>>}

NoCandidates == <<>>

NoIntent == [raised |-> FALSE, text |-> <<>>]

NoGeneration == [raised |-> FALSE, json |-> NoData]

NoReply == [raised |-> FALSE, text |-> ""]

(***************************************************************************)
(* Steps shared by the two engines                                         *)
(***************************************************************************)
\* the farewell of chatbot.py; chabot.py's ends in one more space
FAREWELL == "Thank you for exploring experiences with me! Hope you find the perfect adventure. Have a wonderful day!"

Farewell(eng) == IF eng = "chabot" THEN FAREWELL \o " " ELSE FAREWELL

APOLOGY == "Sorry, I had trouble processing that. Could you say that again?"

RECURSIVE JoinTitles(_)
JoinTitles(exps) ==
    IF exps = <<>> THEN ""
    ELSE IF Len(exps) = 1 THEN Head(exps).title
         ELSE Head(exps).title \o ", " \o JoinTitles(Tail(exps))

\* the value a turn of detect_intent_and_respond ends with
Result(cd, st, text, payload, farewell, calls, path) ==
    [cd |-> cd, store |-> st, text |-> text, payload |-> payload, farewell |-> farewell,
     raised |-> FALSE, calls |-> calls, path |-> path]

\* _detect_intent: the label, whatever the generator does
detect_intent(outcome) ==
    IF outcome.raised THEN "casual_chat"
    ELSE IF Contains(Lower(Strip(outcome.text)), <<"e","x","p","e","r","i","e","n","c","e">>)
         THEN "experience_request"
         ELSE "casual_chat"

\* _detect_intent on each generator outcome, computed once
IntentOf == [o \in IntentOutcomes |-> detect_intent(o)]

\* the history after the size limit of _save_to_memory
LimitHistory(history) ==
    IF Len(history) > MAX_CONVERSATION_HISTORY
    THEN SubSeq(history, Len(history) - MAX_CONVERSATION_HISTORY + 1, Len(history))
    ELSE history

\* exp['discussed_at'] = now, item by item (chatbot.py only)
Stamp(exps, t) == [k \in 1..Len(exps) |-> [exps[k] EXCEPT !.discussed_at = <<t, k>>]]

\* `if exp not in previously_discussed_experiences: append(exp)`, item by item
RECURSIVE AddDiscussed(_, _)
AddDiscussed(previous, exps) ==
    IF exps = <<>> THEN previous
    ELSE AddDiscussed(IF \E k \in 1..Len(previous) : previous[k] = Head(exps)
                      THEN previous ELSE Append(previous, Head(exps)),
                      Tail(exps))

\* _save_to_memory; chabot.py appends the user turn again, chatbot.py stamps the items
save_to_memory(eng, cd, st, user_input, assistant_response, experience_data, t, w) ==
    LET lists == Truthy(experience_data) /\ "experiences" \in experience_data.keys
        data == IF eng = "chatbot" /\ lists
                THEN [experience_data EXCEPT !.experiences = Stamp(@, t)]
                ELSE experience_data
        appended == IF eng = "chabot"
                    THEN cd.history \o <<UserTurn(user_input, t),
                                         AssistantTurn(eng, assistant_response, data, t)>>
                    ELSE Append(cd.history, AssistantTurn(eng, assistant_response, data, t))
        history == LimitHistory(appended)
        updated == [cd EXCEPT !.history = history,
                              !.total_messages = Len(history),
                              !.last_interaction = t,
                              !.previously_discussed_experiences =
                                  IF lists THEN AddDiscussed(@, data.experiences) ELSE @]
        saved == save_conversation(updated, st, t, w)
    IN  [cd |-> saved.cd, store |-> saved.store, data |-> data]

(***************************************************************************)
(* chatbot.py: the database-verified recommendation path                   *)
(***************************************************************************)
\* a payload item built from a candidate: the record's fields, the budget formatted
VerifiedItem(c) ==
    [isdict |-> TRUE, id |-> c.metadata.id, title |-> c.metadata.title,
     category |-> c.metadata.category, location |-> c.metadata.location,
     budget |-> "₹" \o c.metadata.budget, description |-> c.metadata.description,
     similarity_score |-> c.similarity_score, discussed_at |-> <<>>]

\* the verification loop with the id lookup removed: the generated item is kept
VerifyLoopTrusting(exps, database_results) ==
    [k \in 1..Len(exps) |-> exps[k]]

\* the loop of _verify_experience_data: items whose id is in db_lookup, rebuilt
RECURSIVE VerifyLoop(_, _)
VerifyLoop(exps, database_results) ==
    IF exps = <<>> THEN <<>>
    ELSE LET exp_id == Head(exps).id
             rest == VerifyLoop(Tail(exps), database_results)
         IN  IF exp_id \in IdsOf(database_results)
             THEN <<VerifiedItem(database_results[IndexOfId(database_results, exp_id)])>> \o rest
             ELSE rest

\* _verify_experience_data; exp.get raises on an item that is no dict
verify_experience_data(ai_data, database_results) ==
    IF \E k \in 1..Len(ai_data.experiences) : ~ai_data.experiences[k].isdict
    THEN [raised |-> TRUE, data |-> NoData]
    ELSE [raised |-> FALSE,
          data |-> Data(PayloadKeys,
                        IF "conversational_intro" \in ai_data.keys
                        THEN ai_data.conversational_intro
                        ELSE "Here are personalized experiences for you:",
                        VerifyLoop(ai_data.experiences, database_results),
                        IF "conversational_closing" \in ai_data.keys
                        THEN ai_data.conversational_closing
                        ELSE "Which experience excites you most?")]

\* str(n) for the lengths top_experiences can have
Decimal == <<"1", "2", "3">>

\* _create_fallback_response
create_fallback_response(cd, st, user_input, database_results, t, w, calls) ==
    LET experience_data ==
            Data(PayloadKeys, "I've found these verified experiences for your interests:",
                 [k \in 1..Len(database_results) |-> VerifiedItem(database_results[k])],
                 "Which of these verified experiences would you like to explore first?")
        text == "Based on your preferences, I've found " \o Decimal[Len(database_results)]
                \o " exceptional experience(s): "
                \o JoinTitles(experience_data.experiences)
                \o ". Each one is specially selected from our verified database!"
        saved == save_to_memory("chatbot", cd, st, user_input, text, experience_data, t, w)
    IN  Result(saved.cd, saved.store, text, saved.data, FALSE,
               Append(calls, "store:save"), "fallback")

\* _generate_experience_response of chatbot.py
generate_experience_response_verified(cd, st, user_input, env, t, calls) ==
    LET search_results == env.search
        searched == Append(calls, "index:search")
    IN  IF search_results = <<>>
        THEN LET \* the first line of no_results_response
                 text == "I searched our database but couldn't find experiences matching " \o user_input
                 saved == save_to_memory("chatbot", cd, st, user_input, text, NoData, t, env.write)
             IN  Result(saved.cd, saved.store, text, NoData, FALSE,
                        Append(searched, "store:save"), "no_results")
        ELSE LET top_experiences == TopExperiences(search_results)
                 generated == Append(searched, "generator:experience")
                 experience_data == env.gen.json
             IN  IF env.gen.raised
                 THEN create_fallback_response(cd, st, user_input, top_experiences, t, env.write, generated)
                 ELSE IF Truthy(experience_data) /\ "experiences" \in experience_data.keys
                      THEN LET verified == verify_experience_data(experience_data, top_experiences)
                           IN  IF verified.raised
                               THEN create_fallback_response(cd, st, user_input, top_experiences,
                                                             t, env.write, generated)
                               ELSE LET text == verified.data.conversational_intro \o " I found: "
                                                \o JoinTitles(verified.data.experiences) \o ". "
                                                \o verified.data.conversational_closing
                                        saved == save_to_memory("chatbot", cd, st, user_input, text,
                                                                verified.data, t, env.write)
                                    IN  Result(saved.cd, saved.store, text, saved.data, FALSE,
                                               Append(generated, "store:save"), "verified")
                      ELSE create_fallback_response(cd, st, user_input, top_experiences,
                                                    t, env.write, generated)

(***************************************************************************)
(* chabot.py: the recommendation path of the engine the transport serves   *)
(***************************************************************************)
\* an item of the fallback payload of chabot.py
BasicItem(c) == VerifiedItem(c)

\* _generate_experience_response of chabot.py
generate_experience_response_served(cd, st, user_input, env, t, calls) ==
    LET search_results == env.search
        searched == Append(calls, "index:search")
    IN  IF search_results = <<>>
        THEN LET asked == Append(searched, "generator:engagement")
             IN  IF env.reply.raised
                 THEN \* not caught here: detect_intent_and_respond catches it
                      [Result(cd, st, APOLOGY, NoData, FALSE, asked, "error") EXCEPT !.raised = TRUE]
                 ELSE LET saved == save_to_memory("chabot", cd, st, user_input, env.reply.text,
                                                  NoData, t, env.write)
                      IN  Result(saved.cd, saved.store, env.reply.text, NoData, FALSE,
                                 Append(asked, "store:save"), "no_results")
        ELSE LET top_experiences == TopExperiences(search_results)
                 generated == Append(searched, "generator:experience")
                 experience_data == env.gen.json
                 error_msg == "I'd love to suggest some amazing experiences! Could you tell me what type of activities you're interested in?"
             IN  IF env.gen.raised
                 THEN Result(cd, st, error_msg, NoData, FALSE, generated, "generator_failed")
                 ELSE IF Truthy(experience_data)
                      THEN IF \E k \in 1..Len(experience_data.experiences) :
                                  ~experience_data.experiences[k].isdict
                           THEN Result(cd, st, error_msg, NoData, FALSE, generated, "generator_failed")
                           ELSE LET text ==
                                        (IF "conversational_intro" \in experience_data.keys
                                         THEN experience_data.conversational_intro
                                         ELSE "Here are some great personalized options for you!")
                                        \o " I suggest: " \o JoinTitles(experience_data.experiences) \o ". "
                                        \o (IF "conversational_closing" \in experience_data.keys
                                            THEN experience_data.conversational_closing
                                            ELSE "Let me know if you'd like more details!")
                                    saved == save_to_memory("chabot", cd, st, user_input, text,
                                                            experience_data, t, env.write)
                                IN  Result(saved.cd, saved.store, text, saved.data, FALSE,
                                           Append(generated, "store:save"), "generated")
                      ELSE LET items == [k \in 1..Len(top_experiences) |-> BasicItem(top_experiences[k])]
                               text == "I found some great experiences for you! "
                                       \o JoinTitles(items) \o ". Which one interests you most?"
                               data == Data({"conversational_intro", "experiences"}, text, items, "")
                               saved == save_to_memory("chabot", cd, st, user_input, text, data, t, env.write)
                           IN  Result(saved.cd, saved.store, text, saved.data, FALSE,
                                      Append(generated, "store:save"), "fallback")

(***************************************************************************)
(* detect_intent_and_respond                                               *)
(***************************************************************************)
\* _generate_casual_response: the reply is saved only when the generator returned
generate_casual_response(eng, cd, st, user_input, env, t, calls) ==
    LET asked == Append(calls, "generator:casual")
    IN  IF env.reply.raised
        THEN Result(cd, st,
                    IF eng = "chatbot"
                    THEN "Hello! I'm here to help you discover verified experiences from our database. What would you like to explore today?"
                    ELSE "Hello! I'm here to help you discover amazing experiences. What would you like to explore today?",
                    NoData, FALSE, asked, "casual_failed")
        ELSE LET saved == save_to_memory(eng, cd, st, user_input, env.reply.text, NoData, t, env.write)
             IN  Result(saved.cd, saved.store, env.reply.text, NoData, FALSE,
                        Append(asked, "store:save"), "casual")

\* history[-n:]
LastN(seq, n) == SubSeq(seq, IF Len(seq) > n THEN Len(seq) - n + 1 ELSE 1, Len(seq))

\* _build_context: msg['content'][:150] raises on a content that is no string; the
\* prompts are built from it outside the try blocks of the functions that use it
build_context_raises(history) ==
    \E k \in 1..Len(LastN(history, 10)) : ~IsString(LastN(history, 10)[k].content)

\* what detect_intent_and_respond leaves in self.conversation_data before its first
\* await on a message that is no exit: the user turn and the preferences of the message
heard_and_profiled(cd, user_input, t) ==
    [cd EXCEPT !.history = Append(@, UserTurn(user_input, t)),
               !.user_profile = extract_user_preferences(@, MessageMentions[user_input])]

\* every message is answered by the recommendation responder, whatever its label
answer_recommending(eng, profiled, st, user_input, env, t, classified) ==
    IF eng = "chatbot"
    THEN generate_experience_response_verified(profiled, st, user_input, env, t, classified)
    ELSE generate_experience_response_served(profiled, st, user_input, env, t, classified)

\* what it does once _detect_intent has its answer: the reply of the intent's branch
answer(eng, profiled, st, user_input, env, t, classified) ==
    IF IntentOf[env.intent] = "experience_request"
    THEN IF eng = "chatbot"
         THEN generate_experience_response_verified(profiled, st, user_input, env, t, classified)
         ELSE generate_experience_response_served(profiled, st, user_input, env, t, classified)
    ELSE generate_casual_response(eng, profiled, st, user_input, env, t, classified)

\* the body of the try block of detect_intent_and_respond
respond(eng, cd, st, user_input, env, t) ==
    LET heard == [cd EXCEPT !.history = Append(@, UserTurn(user_input, t))]
        checked == <<"history.append", "check_exit_intent">>
    IN  IF ~IsString(user_input)
        THEN \* text.lower() raises on a message that is no string
             [Result(heard, st, "", NoData, FALSE, checked, "error") EXCEPT !.raised = TRUE]
        ELSE IF ExitIntent[user_input]
             THEN LET saved == save_to_memory(eng, heard, st, user_input, Farewell(eng), NoData, t, env.write)
                  IN  Result(saved.cd, saved.store, Farewell(eng), NoData, TRUE,
                             Append(checked, "store:save"), "farewell")
             ELSE LET profiled == heard_and_profiled(cd, user_input, t)
                      classified == checked \o <<"_extract_user_preferences", "generator:intent">>
                  IN  IF build_context_raises(profiled.history)
                      THEN \* _detect_intent raises while it builds its prompt
                           [Result(profiled, st, "", NoData, FALSE,
                                   Append(checked, "_extract_user_preferences"), "error")
                               EXCEPT !.raised = TRUE]
                      ELSE answer(eng, profiled, st, user_input, env, t, classified)

\* the except clause left out: the exception reaches the caller
Propagate(r) == r

\* `except Exception`: the fixed apology, no payload, no farewell
Catch(r) ==
    IF r.raised
    THEN Result(r.cd, r.store, APOLOGY, NoData, FALSE, r.calls, "error")
    ELSE r

detect_intent_and_respond(eng, cd, st, user_input, env, t) ==
    Catch(respond(eng, cd, st, user_input, env, t))

\* clear_conversation_memory: delete the file, then load again
clear_conversation_memory(st, t, delOk, readOk) ==
    LET deleted == delete_conversation(st, delOk)
    IN  [store |-> deleted, cd |-> load_conversation(deleted, t, readOk)]

(***************************************************************************)
(* The engine instance as a state machine                                  *)
(***************************************************************************)
Called(r, what) == \E k \in 1..Len(r.calls) : r.calls[k] = what

\* what a turn did: the inputs it consumed and the calls it made, in order
TurnRecord(user_input, env, r) ==
    [message |-> user_input,
     path |-> r.path,
     calls |-> r.calls,
     search |-> IF Called(r, "index:search") THEN env.search ELSE NoCandidates,
     generated |-> Called(r, "generator:experience"),
     gen |-> IF Called(r, "generator:experience") THEN env.gen ELSE NoGeneration,
     intent |-> IF Called(r, "generator:intent") THEN env.intent ELSE NoIntent,
     label |-> IF Called(r, "generator:intent") THEN IntentOf[env.intent] ELSE "none",
     reply |-> IF Called(r, "generator:casual") \/ Called(r, "generator:engagement")
               THEN env.reply ELSE NoReply,
     generator_failed |-> \/ Called(r, "generator:experience") /\ env.gen.raised
                          \/ Called(r, "generator:casual") /\ env.reply.raised
                          \/ Called(r, "generator:engagement") /\ env.reply.raised
                          \/ Called(r, "generator:intent") /\ env.intent.raised,
     write |-> IF Called(r, "store:save") THEN env.write ELSE "none"]

NoTurn ==
    [message |-> "", path |-> "", calls |-> <<>>, search |-> NoCandidates, generated |-> FALSE,
     gen |-> NoGeneration, intent |-> NoIntent, label |-> "none", reply |-> NoReply,
     generator_failed |-> FALSE, write |-> "none"]

NoReturn == [text |-> "", payload |-> NoData, farewell |-> FALSE, raised |-> FALSE]

\* the engine seen without its transport
NoNet == [serving |-> FALSE]

\* the environment of a turn in which nothing fails and the reply is casual
PlainEnvironment ==
    [intent |-> [raised |-> FALSE, text |-> <<"c","a","s","u","a","l","_","c","h","a","t">>],
     reply |-> [raised |-> FALSE, text |-> "generated reply"],
     search |-> <<>>, gen |-> NoGeneration, write |-> "ok"]

\* the environments of one turn; an outcome that no path consumes together with the
\* others is held at its default (casual: no index, no recommendation prompt;
\* candidates found: no engagement prompt; no candidates: no recommendation prompt)
\* (a message that is no string: nothing is called; an exit message: only the store)
Environments ==
    LET casual == {o \in IntentOutcomes : IntentOf[o] = "casual_chat"}
        quiet == [m \in {m \in Messages : ~IsString(m)} |->
                     [intent : {NoIntent}, reply : {NoReply}, search : {NoCandidates},
                      gen : {NoGeneration}, write : {"ok"}]]
        leaving == [m \in {m \in Messages : IsString(m) /\ ExitIntent[m]} |->
                       [intent : {NoIntent}, reply : {NoReply}, search : {NoCandidates},
                        gen : {NoGeneration}, write : WriteOutcomes]]
        talking == [m \in {m \in Messages : IsString(m) /\ ~ExitIntent[m]} |->
                       [intent : casual, reply : ReplyOutcomes, search : {NoCandidates},
                        gen : {NoGeneration}, write : WriteOutcomes]
                       \cup [intent : IntentOutcomes \ casual, reply : ReplyOutcomes,
                             search : {NoCandidates}, gen : {NoGeneration}, write : WriteOutcomes]
                       \cup [intent : IntentOutcomes \ casual, reply : {NoReply},
                             search : SearchOutcomes \ {NoCandidates}, gen : GenOutcomes,
                             write : WriteOutcomes]]
    IN  [m \in Messages |-> IF ~IsString(m) THEN quiet[m]
                            ELSE IF ExitIntent[m] THEN leaving[m] ELSE talking[m]]

\* numbers of exchanges an earlier process may have handled for the client
PriorExchanges == {0, MAX_CONVERSATION_HISTORY \div 2}

\* the engine and store state after k plain exchanges ("m_goa", casual, nothing failing)
\* handled from the empty state at times 1..k, in closed form
Earlier(eng, k) ==
    LET per == IF eng = "chabot" THEN 3 ELSE 2
        all == [j \in 1..(per * k) |->
                   LET i == ((j - 1) \div per) + 1
                   IN  IF (j - 1) % per = per - 1
                       THEN AssistantTurn(eng, "generated reply", NoData, i)
                       ELSE UserTurn("m_goa", i)]
        history == LimitHistory(all)
        cd == [history |-> history,
               user_profile |-> [interests |-> <<"adventure">>, budget_range |-> <<>>,
                                 preferred_locations |-> <<"goa">>],
               session_count |-> 0,
               first_interaction |-> 0,
               last_interaction |-> k,
               total_messages |-> Len(history),
               previously_discussed_experiences |-> <<>>,
               _metadata |-> [present |-> TRUE, last_updated |-> k,
                              total_exchanges |-> Len(history), session_count |-> 1]]
    IN  IF k = 0 THEN [cd |-> DefaultConversationData(0), store |-> NoFile]
        ELSE [cd |-> cd, store |-> [state |-> "ok", data |-> cd]]

\* the closed form is what the engine produces: one more plain exchange handled in
\* the state Earlier(eng, k) gives the state Earlier(eng, k + 1)
EarlierIsReachable ==
    \A eng \in {"chatbot", "chabot"} : \A k \in 0..(MAX_CONVERSATION_HISTORY \div 2) :
        LET r == detect_intent_and_respond(eng, Earlier(eng, k).cd, Earlier(eng, k).store,
                                           "m_goa", PlainEnvironment, k + 1)
        IN  r.cd = Earlier(eng, k + 1).cd /\ r.store = Earlier(eng, k + 1).store

\* a turn that completes normally: no exit, no failure, the turn saved
NormalTurn(r, t) ==
    /\ r.path \in {"casual", "no_results", "verified", "generated", "fallback"}
    /\ t.write = "ok"
    /\ ~t.generator_failed

\* no pure function has been applied
NotApplied == [done |-> FALSE, exit |-> FALSE, top |-> <<>>]

Pure == fin = <<>> /\ fout = NotApplied

\* __init__: the conversation is loaded from what an earlier process stored
Init ==
    /\ engine \in {"chatbot", "chabot"}
    /\ prior \in PriorExchanges
    /\ store = Earlier(engine, prior).store
    /\ conversation_data = load_conversation(store, prior + 1, TRUE)
    /\ now = prior + 1
    /\ turns = 0
    /\ normal = TRUE
    /\ last = "init"
    /\ ret = NoReturn
    /\ turn = NoTurn
    /\ net = NoNet
    /\ Pure

HandleMessage ==
    /\ turns < MaxTurns
    /\ \E user_input \in Messages : \E env \in Environments[user_input] :
          LET r == detect_intent_and_respond(engine, conversation_data, store, user_input, env, now)
              t == TurnRecord(user_input, env, r)
          IN  /\ conversation_data' = r.cd
              /\ store' = r.store
              /\ ret' = [text |-> r.text, payload |-> r.payload, farewell |-> r.farewell,
                         raised |-> r.raised]
              /\ turn' = t
              /\ normal' = (normal /\ NormalTurn(r, t))
    /\ now' = now + 1
    /\ turns' = turns + 1
    /\ last' = "message"
    /\ UNCHANGED <<engine, prior, fin, fout, net>>

ClearMemory ==
    /\ \E delOk \in BOOLEAN, readOk \in BOOLEAN :
          LET c == clear_conversation_memory(store, now, delOk, readOk)
          IN  /\ store' = c.store
              /\ conversation_data' = c.cd
    /\ normal' = FALSE
    /\ last' = "clear"
    /\ ret' = NoReturn
    /\ turn' = NoTurn
    /\ UNCHANGED <<engine, prior, now, turns, fin, fout, net>>

Next == HandleMessage \/ ClearMemory

Spec == Init /\ [][Next]_vars

(***************************************************************************)
(* The pure functions on their own: check_exit_intent, the ranking         *)
(***************************************************************************)
\* the engine instance at rest while a pure function is checked
Idle ==
    /\ engine = "chatbot"
    /\ prior = 0
    /\ store = NoFile
    /\ conversation_data = DefaultConversationData(0)
    /\ now = 1
    /\ turns = 0
    /\ normal = TRUE
    /\ last = "init"
    /\ ret = NoReturn
    /\ turn = NoTurn
    /\ net = NoNet

Engine == <<engine, conversation_data, store, ret, turn, now, turns, prior, normal, last, net>>

Vocabulary ==
    {<<"s","t","o","p">>, <<"B","y","e">>, <<"t","h","a","t","'","s">>, <<"a","l","l">>,
     <<"g","o">>}

RECURSIVE Join(_)
Join(words) ==
    IF words = <<>> THEN <<>>
    ELSE IF Len(words) = 1 THEN Head(words)
         ELSE Head(words) \o <<" ">> \o Join(Tail(words))

\* the texts of the spec's examples
IdLikeToStopByTheBeach ==
    <<"I","'","d"," ","l","i","k","e"," ","t","o"," ","s","t","o","p"," ","b","y"," ",
      "t","h","e"," ","b","e","a","c","h">>

ExampleTexts ==
    {<<"s","t","o","p">>, <<"b","y","e">>, <<"t","h","a","t","'","s"," ","a","l","l">>,
     IdLikeToStopByTheBeach, MessageText["m_bye"], MessageText["m_goa"], <<>>}

\* texts of up to MaxWords words, single-spaced, bare or padded with whitespace
ExitTexts ==
    LET bare == {Join(ws) : ws \in UNION {[1..n -> Vocabulary] : n \in 0..MaxWords}}
    IN  ExampleTexts \cup bare \cup {<<" ">> \o t \o <<"\t", "\n">> : t \in bare}

InitExit == Idle /\ fin \in ExitTexts /\ fout = NotApplied

ApplyExit ==
    /\ ~fout.done
    /\ fout' = [done |-> TRUE, exit |-> check_exit_intent(fin), top |-> <<>>]
    /\ UNCHANGED <<fin, Engine>>

SpecExit == InitExit /\ [][ApplyExit]_vars

\* retrieval lists of up to MaxCands candidates
CandidateLists == UNION {[1..n -> CandidatePool] : n \in 0..MaxCands}

InitRank == Idle /\ fin \in CandidateLists /\ fout = NotApplied

ApplyRank ==
    /\ ~fout.done
    /\ fout' = [done |-> TRUE, exit |-> FALSE, top |-> TopExperiences(fin)]
    /\ UNCHANGED <<fin, Engine>>

SpecRank == InitRank /\ [][ApplyRank]_vars

(***************************************************************************)
(* C10: the exit check                                                     *)
(***************************************************************************)
\* the text between its first and its last non-whitespace character, lower-cased
Trimmed(t) ==
    LET solid == {i \in 1..Len(t) : t[i] \notin Whitespace}
    IN  IF solid = {} THEN <<>>
        ELSE LET a == CHOOSE i \in solid : \A j \in solid : i <= j
                 b == CHOOSE i \in solid : \A j \in solid : j <= i
             IN  [i \in 1..(b - a + 1) |-> LowerChar(t[a + i - 1])]

\* the number of maximal runs of non-whitespace characters
WordCount(t) ==
    Cardinality({i \in 1..Len(t) :
        t[i] \notin Whitespace /\ (i = 1 \/ t[i - 1] \in Whitespace)})

PhraseSet == {exit_phrases[k] : k \in 1..Len(exit_phrases)}

Occurs(p, t) ==
    \E i \in 0..(Len(t) - Len(p)) : \A j \in 1..Len(p) : t[i + j] = p[j]

IsExit(t) ==
    \/ Trimmed(t) \in PhraseSet
    \/ (\E p \in PhraseSet : Occurs(p, Trimmed(t))) /\ WordCount(t) <= 4

\* C10: check_exit_intent(text) is true exactly when the lower-cased, trimmed
\* text is one of the exit phrases, or an exit phrase occurs in it and it has
\* at most 4 whitespace-separated words; "stop", "bye" and "that's all" are
\* exits and "I'd like to stop by the beach" is not.
C10_ExitCheckExact ==
    fout.done =>
        /\ fout.exit = IsExit(fin)
        /\ fin \in {<<"s","t","o","p">>, <<"b","y","e">>,
                    <<"t","h","a","t","'","s"," ","a","l","l">>} => fout.exit
        /\ fin = IdLikeToStopByTheBeach => ~fout.exit

\* a four-word text that is an exit only because a phrase occurs in it
C10_Witness ==
    /\ fout.done
    /\ fout.exit
    /\ WordCount(fin) = 4
    /\ Trimmed(fin) \notin PhraseSet

(***************************************************************************)
(* C4: deduplication, ranking and truncation of the candidates             *)
(***************************************************************************)
\* the scores the retrieval list carries for an id
ScoresFor(cands, i) ==
    {cands[k].similarity_score : k \in {j \in 1..Len(cands) : cands[j].metadata.id = i}}

BestScore(cands, i) ==
    CHOOSE s \in ScoresFor(cands, i) : \A u \in ScoresFor(cands, i) : u <= s

Smaller(a, b) == IF a < b THEN a ELSE b

\* C4: the candidate list used for the response holds each id at most once,
\* each retained entry is an entry of the retrieval list with the maximum score
\* of its id, the list is sorted by score descending, and it has
\* min(MAX_RESULTS, number of distinct ids) entries, none of which scores
\* below a deduplicated candidate that was left out.
C4_RankedTopN ==
    fout.done =>
        LET top == fout.top
        IN  /\ \A a, b \in 1..Len(top) : top[a].metadata.id = top[b].metadata.id => a = b
            /\ \A a \in 1..Len(top) :
                  /\ \E k \in 1..Len(fin) : fin[k] = top[a]
                  /\ top[a].similarity_score = BestScore(fin, top[a].metadata.id)
            /\ \A a \in 1..(Len(top) - 1) :
                  top[a].similarity_score >= top[a + 1].similarity_score
            /\ Len(top) <= MAX_RESULTS
            /\ Len(top) = Smaller(MAX_RESULTS, Cardinality(IdsOf(fin)))
            /\ \A i \in IdsOf(fin) \ IdsOf(top) : \A a \in 1..Len(top) :
                  BestScore(fin, i) <= top[a].similarity_score

\* a list with four distinct ids in which the lower score of a repeated id
\* comes last and the repeated id makes it into the result
C4_Witness ==
    /\ fout.done
    /\ Cardinality(IdsOf(fin)) > MAX_RESULTS
    /\ \E j, k \in 1..Len(fin) :
          /\ j < k
          /\ fin[j].metadata.id = fin[k].metadata.id
          /\ fin[j].similarity_score > fin[k].similarity_score
          /\ fin[j].metadata.id \in IdsOf(fout.top)
    /\ Len(fout.top) = MAX_RESULTS

(***************************************************************************)
(* What a turn returned and what it left in the history and in the store   *)
(***************************************************************************)
ItemsOf(d) == {d.experiences[k] : k \in 1..Len(d.experiences)}

\* the assistant turns a history holds for the message handled at time t
AssistantTurnsAt(history, t) ==
    {history[k] : k \in {j \in 1..Len(history) :
        history[j].role = "assistant" /\ history[j].timestamp = t}}

UserTurnsAt(history, t) ==
    {history[k] : k \in {j \in 1..Len(history) :
        history[j].role = "user" /\ history[j].timestamp = t}}

\* the history in the client's file; nothing when there is no readable file
PersistedHistory == IF store.state = "ok" THEN store.data.history ELSE <<>>

\* the items of the payload the last turn returned
ReturnedItems == ItemsOf(ret.payload)

\* the items attached to the assistant turn the last turn persisted
PersistedItems ==
    UNION {ItemsOf(a.experience_data) : a \in AssistantTurnsAt(PersistedHistory, now - 1)}

\* the items attached to the assistant turn the last turn left in memory
RememberedItems ==
    UNION {ItemsOf(a.experience_data) : a \in AssistantTurnsAt(conversation_data.history, now - 1)}

\* the records of the candidates the turn's retrieval call returned
RetrievedRecords == {turn.search[k].metadata : k \in 1..Len(turn.search)}

\* the candidates the turn's response was built from
UsedCandidates == TopExperiences(turn.search)

RecommendationTurn == last = "message" /\ Called(turn, "index:search") /\ turn.search # <<>>

(***************************************************************************)
(* C1: the payload of chatbot.py against the retrieved records             *)
(***************************************************************************)
\* the item carries the record's fields as they are
CopiesRecord(item, r) ==
    /\ item.id = r.id
    /\ item.title = r.title
    /\ item.category = r.category
    /\ item.location = r.location
    /\ item.budget = r.budget
    /\ item.description = r.description

\* the item carries the record's fields, the budget behind a rupee sign
PresentsRecord(item, r) ==
    /\ item.id = r.id
    /\ item.title = r.title
    /\ item.category = r.category
    /\ item.location = r.location
    /\ item.budget = "₹" \o r.budget
    /\ item.description = r.description

\* the generated ids that the retrieval call did not return
ForeignIds ==
    {turn.gen.json.experiences[k].id : k \in {j \in 1..Len(turn.gen.json.experiences) :
        turn.gen.json.experiences[j].id \notin IdsOf(UsedCandidates)}}

C2_ServedPayloadFromRecords ==
    (engine = "chabot" /\ last = "message") =>
        \A item \in ReturnedItems \cup PersistedItems :
            \E r \in RetrievedRecords : CopiesRecord(item, r) \/ PresentsRecord(item, r)

\* chabot.py returned and persisted an item under an id the index did not return
C2_Witness ==
    /\ engine = "chabot"
    /\ last = "message"
    /\ turn.path = "generated"
    /\ \E item \in ReturnedItems \cap PersistedItems : item.id \notin IdsOf(turn.search)

(***************************************************************************)
(* C3: the deterministic fallback                                          *)
(***************************************************************************)
\* the generation of the turn gave no usable recommendation list
ExtractionFailed == ~turn.gen.raised /\ ~Truthy(turn.gen.json)

NothingSurvives ==
    /\ ~turn.gen.raised
    /\ Truthy(turn.gen.json)
    /\ \A k \in 1..Len(turn.gen.json.experiences) :
          turn.gen.json.experiences[k].id \notin IdsOf(UsedCandidates)

\* C3: on a recommendation turn with at least one candidate, if the extraction
\* fails, the generator raises or no generated item survives verification, the
\* returned payload lists exactly the top candidates in rank order, so it has
\* at least one item.
C3_FallbackIsTopN ==
    (RecommendationTurn /\ (ExtractionFailed \/ turn.gen.raised \/ NothingSurvives)) =>
        /\ ~ret.payload.null
        /\ Len(ret.payload.experiences) = Len(UsedCandidates)
        /\ \A k \in 1..Len(UsedCandidates) :
              PresentsRecord(ret.payload.experiences[k], UsedCandidates[k].metadata)
        /\ Len(ret.payload.experiences) >= 1

\* chatbot.py verified a generation of foreign items only and returned no item
C3_Witness ==
    /\ engine = "chatbot"
    /\ RecommendationTurn
    /\ NothingSurvives
    /\ turn.gen.json.experiences # <<>>
    /\ turn.path = "verified"
    /\ ~ret.payload.null
    /\ ret.payload.experiences = <<>>

(***************************************************************************)
(* C5: the size of the history                                             *)
(***************************************************************************)
\* new is old without its d oldest turns, followed by turns of the message at time t
KeepsNewest(old, new, t) ==
    \E d \in 0..Len(old) :
        /\ Len(new) >= Len(old) - d
        /\ \A k \in 1..(Len(old) - d) : new[k] = old[d + k]
        /\ \A k \in (Len(old) - d + 1)..Len(new) : new[k].timestamp = t

\* C5: after every detect_intent_and_respond call, on every path, the history in
\* memory and the persisted history hold at most MAX_CONVERSATION_HISTORY turns,
\* and what the call removed from the history are its oldest turns.
C5_HistoryBounded ==
    [][(last' = "message" /\ turns' = turns + 1) =>
          /\ Len(conversation_data'.history) <= MAX_CONVERSATION_HISTORY
          /\ store'.state = "ok" => Len(store'.data.history) <= MAX_CONVERSATION_HISTORY
          /\ KeepsNewest(conversation_data.history, conversation_data'.history, now)]_vars

\* a call returned on a failure path and left more than the maximum in memory
C5_Witness ==
    /\ last = "message"
    /\ turn.path \in {"casual_failed", "generator_failed", "error"}
    /\ Len(conversation_data.history) > MAX_CONVERSATION_HISTORY

(***************************************************************************)
(* C6: total_messages after N normal exchanges                             *)
(***************************************************************************)
\* C6: in either engine, after N messages handled from the empty state, none of
\* them an exit and each completing normally, get_conversation_stats reports
\* total_messages = min(2N, MAX_CONVERSATION_HISTORY).
C6_TwoPerExchange ==
    normal =>
        get_conversation_stats(store, now, TRUE).total_messages
            = Smaller(2 * (prior + turns), MAX_CONVERSATION_HISTORY)

\* chabot.py after one normal exchange from the empty state: three messages
C6_Witness ==
    /\ engine = "chabot"
    /\ prior = 0
    /\ turns = 1
    /\ normal
    /\ get_conversation_stats(store, now, TRUE).total_messages = 3

(***************************************************************************)
(* C7: the user turn in the persisted state                                *)
(***************************************************************************)
\* C7: after detect_intent_and_respond returns, on any path on which the store
\* itself did not fail, the client's file holds the user turn of the message.
C7_UserTurnPersisted ==
    (last = "message" /\ turn.write \in {"ok", "none"}) =>
        \E u \in UserTurnsAt(PersistedHistory, now - 1) : u.content = turn.message

\* the casual generator failed and the file has no user turn of the message
C7_Witness ==
    /\ last = "message"
    /\ turn.path = "casual_failed"
    /\ UserTurnsAt(PersistedHistory, now - 1) = {}
    /\ UserTurnsAt(conversation_data.history, now - 1) # {}

(***************************************************************************)
(* C8: failures never reach the caller                                     *)
(***************************************************************************)
StoreFailed == turn.write \in {"open_failed", "dump_failed"}

\* the message is one the exit check matches
ExitMessage == IsString(turn.message) /\ check_exit_intent(MessageText[turn.message])

\* something failed during the turn: the generator, the store, or the handling itself
FailureInTurn == turn.generator_failed \/ StoreFailed \/ turn.path = "error"

\* the failure was caught by no path of its own
Unhandled == turn.path = "error"

\* C8 as stated: the call never raises; on every failure of the generator, the
\* index or the store it returns with isFarewell = false, and on a failure no
\* path handles the text is the fixed apology and the payload is null.
C8_FailuresReturnNoFarewell ==
    last = "message" =>
        /\ ~ret.raised
        /\ FailureInTurn => ~ret.farewell
        /\ Unhandled => ret.text = "Sorry, I had trouble processing that. Could you say that again?"
                        /\ ret.payload.null

\* C8 amended: the call never raises; on every failure during a turn whose
\* message is no exit message it returns with isFarewell = false (a store
\* failure on an exit turn is swallowed and the farewell is returned); on a
\* failure no path handles the text is the fixed apology, the payload is null
\* and isFarewell is false.
C8_FailuresNeverRaise ==
    last = "message" =>
        /\ ~ret.raised
        /\ (FailureInTurn /\ ~ExitMessage) => ~ret.farewell
        /\ Unhandled => /\ ret.text = "Sorry, I had trouble processing that. Could you say that again?"
                        /\ ret.payload.null
                        /\ ~ret.farewell

\* an exception of the generator that only the orchestrator catches
C8_Witness ==
    /\ last = "message"
    /\ Unhandled
    /\ turn.generator_failed
    /\ ret.text = APOLOGY
    /\ ~ret.raised

(***************************************************************************)
(* C9: the exit path                                                       *)
(***************************************************************************)
Position(calls, what) == CHOOSE k \in 1..Len(calls) : calls[k] = what

GeneratorOrIndexCalled ==
    \E k \in 1..Len(turn.calls) :
        turn.calls[k] \in {"generator:intent", "generator:casual", "generator:engagement",
                           "generator:experience", "index:search"}

FarewellTexts ==
    {"Thank you for exploring experiences with me! Hope you find the perfect adventure. Have a wonderful day!",
     "Thank you for exploring experiences with me! Hope you find the perfect adventure. Have a wonderful day! "}

\* the history ends with the farewell as the assistant turn of the message
EndsWithFarewell(history) ==
    /\ history # <<>>
    /\ history[Len(history)].role = "assistant"
    /\ history[Len(history)].content \in FarewellTexts
    /\ history[Len(history)].timestamp = now - 1

\* what C9 says of a message the exit check does not match
NoExitPart ==
    /\ ~ret.farewell
    /\ Called(turn, "generator:intent") =>
          /\ Called(turn, "check_exit_intent")
          /\ Position(turn.calls, "check_exit_intent") < Position(turn.calls, "generator:intent")

\* what C9 says of a message the exit check matches, but for the persistence
ExitPart ==
    /\ ret.text \in FarewellTexts
    /\ ret.payload.null
    /\ ret.farewell
    /\ ~GeneratorOrIndexCalled

\* C9 as stated: on a message the exit check matches the call returns the
\* fixed farewell, a null payload and isFarewell = true, the farewell turn is
\* persisted and neither the generator nor the index is called; on any other
\* message isFarewell is false and the exit check precedes the intent classifier.
C9_ExitPersisted ==
    last = "message" =>
        IF ExitMessage
        THEN ExitPart /\ EndsWithFarewell(PersistedHistory)
        ELSE NoExitPart

\* C9 amended: the same, the farewell turn being appended to the history in
\* memory and handed to the store, hence persisted when the store's write succeeds.
C9_ExitBestEffort ==
    last = "message" =>
        IF ExitMessage
        THEN /\ ExitPart
             /\ EndsWithFarewell(conversation_data.history)
             /\ Called(turn, "store:save")
             /\ turn.write = "ok" => EndsWithFarewell(PersistedHistory)
        ELSE NoExitPart

\* an exit message answered with the farewell and persisted
C9_Witness ==
    /\ last = "message"
    /\ ExitMessage
    /\ ret.farewell
    /\ EndsWithFarewell(PersistedHistory)

(***************************************************************************)
(* The profile over a sequence of messages, nothing failing                *)
(***************************************************************************)
InitProfile ==
    /\ engine \in {"chatbot", "chabot"}
    /\ prior = 0
    /\ store = NoFile
    /\ conversation_data = load_conversation(store, 1, TRUE)
    /\ now = 1
    /\ turns = 0
    /\ normal = TRUE
    /\ last = "init"
    /\ ret = NoReturn
    /\ turn = NoTurn
    /\ net = NoNet
    /\ Pure

HandleProfileMessage ==
    /\ turns < MaxProfileTurns
    /\ \E user_input \in ProfileMessages :
          LET r == detect_intent_and_respond(engine, conversation_data, store, user_input,
                                             PlainEnvironment, now)
              t == TurnRecord(user_input, PlainEnvironment, r)
          IN  /\ conversation_data' = r.cd
              /\ store' = r.store
              /\ ret' = [text |-> r.text, payload |-> r.payload, farewell |-> r.farewell,
                         raised |-> r.raised]
              /\ turn' = t
              /\ normal' = (normal /\ NormalTurn(r, t))
    /\ now' = now + 1
    /\ turns' = turns + 1
    /\ last' = "message"
    /\ UNCHANGED <<engine, prior, fin, fout, net>>

SpecProfile == InitProfile /\ [][HandleProfileMessage]_vars

(***************************************************************************)
(* C11: the profile never shrinks, the budget is the latest one            *)
(***************************************************************************)
IsPrefix(a, b) == Len(a) <= Len(b) /\ \A k \in 1..Len(a) : a[k] = b[k]

NoDuplicates(seq) == \A a, b \in 1..Len(seq) : seq[a] = seq[b] => a = b

\* the messages handled so far, oldest first (chabot.py records each saved one twice)
RECURSIVE MessagesFrom(_, _)
MessagesFrom(history, k) ==
    IF k > Len(history) THEN <<>>
    ELSE IF /\ history[k].role = "user"
            /\ (k = 1 \/ history[k - 1].role # "user"
                       \/ history[k - 1].timestamp # history[k].timestamp)
         THEN <<history[k].content>> \o MessagesFrom(history, k + 1)
         ELSE MessagesFrom(history, k + 1)

MessagesHandled(history) == MessagesFrom(history, 1)

\* the budget of the latest of the given messages whose text matches a budget pattern
LatestBudget(handled, counted) ==
    LET hits == {k \in DOMAIN handled :
                    handled[k] \in counted /\ BudgetIn(Lower(MessageText[handled[k]])).found}
    IN  IF hits = {} THEN <<>>
        ELSE LET k == CHOOSE x \in hits : \A y \in hits : y <= x
             IN  BudgetIn(Lower(MessageText[handled[k]])).group

ProfileNeverShrinks ==
    /\ IsPrefix(conversation_data.user_profile.interests,
                conversation_data'.user_profile.interests)
    /\ IsPrefix(conversation_data.user_profile.preferred_locations,
                conversation_data'.user_profile.preferred_locations)
    /\ NoDuplicates(conversation_data'.user_profile.interests)
    /\ NoDuplicates(conversation_data'.user_profile.preferred_locations)

\* C11 as stated: over the messages handled without a clear, the interests and
\* the preferred locations never lose an element and never hold a duplicate,
\* and the budget is the one of the latest message that matches a budget pattern.
C11_BudgetOfLatestMessage ==
    [][/\ ProfileNeverShrinks
       /\ conversation_data'.user_profile.budget_range
              = LatestBudget(MessagesHandled(conversation_data'.history), ProfileMessages)]_vars

\* C11 amended: the same, the budget being the one of the latest message that
\* is no exit message and matches a budget pattern (an exit message is not
\* scanned for preferences).
C11_BudgetOfLatestScanned ==
    [][/\ ProfileNeverShrinks
       /\ conversation_data'.user_profile.budget_range
              = LatestBudget(MessagesHandled(conversation_data'.history),
                             {m \in ProfileMessages : ~check_exit_intent(MessageText[m])})]_vars

\* two budgets were given one after the other and the profile holds the second,
\* with the interests and locations of both messages, each once
C11_Witness ==
    /\ turns = 3
    /\ MessagesHandled(conversation_data.history) = <<"p_kerala", "p_relax", "m_goa">>
    /\ conversation_data.user_profile.budget_range = <<"₹","7","0","0","0">>
    /\ conversation_data.user_profile.interests = <<"adventure", "nature", "relaxation">>
    /\ conversation_data.user_profile.preferred_locations = <<"kerala", "goa">>

(***************************************************************************)
(* C12: preferences are extracted on every message that is no exit         *)
(***************************************************************************)
Range(seq) == {seq[k] : k \in 1..Len(seq)}

\* new is old with what the message mentions added, its budget replacing the old one
UpdatedBy(old, new, m) ==
    /\ Range(new.interests)
          = Range(old.interests)
            \cup {interest_keywords[k].interest : k \in MessageMentions[m].interests}
    /\ Range(new.preferred_locations)
          = Range(old.preferred_locations)
            \cup {location_keywords[k].location : k \in MessageMentions[m].locations}
    /\ new.budget_range = IF MessageMentions[m].budget.found
                          THEN MessageMentions[m].budget.group
                          ELSE old.budget_range

\* C12: the preferences are extracted exactly when the message is no exit
\* message: on a text that is no exit the extraction runs, before the intent
\* classifier, and the profile holds what the message mentions on every path
\* (casual, failed classification, failed generation); on an exit message the
\* extraction does not run and the profile is unchanged. (A message without
\* text mentions nothing and leaves the profile as it is.)
C12_ExtractUnlessExit ==
    [][(last' = "message" /\ turns' = turns + 1) =>
          IF check_exit_intent(MessageText[turn'.message])
          THEN /\ ~Called(turn', "_extract_user_preferences")
               /\ conversation_data'.user_profile = conversation_data.user_profile
          ELSE /\ IsString(turn'.message) => Called(turn', "_extract_user_preferences")
               /\ Called(turn', "generator:intent") =>
                     Position(turn'.calls, "_extract_user_preferences")
                         < Position(turn'.calls, "generator:intent")
               /\ UpdatedBy(conversation_data.user_profile,
                            conversation_data'.user_profile, turn'.message)]_vars

\* the first message of a client named an interest and a location, the generator
\* failed during the turn, and the profile holds both
C12_Witness ==
    /\ last = "message"
    /\ prior = 0
    /\ turns = 1
    /\ turn.message = "m_goa"
    /\ turn.generator_failed
    /\ conversation_data.user_profile.interests = <<"adventure">>
    /\ conversation_data.user_profile.preferred_locations = <<"goa">>

(***************************************************************************)
(* C13: the intent classifier                                              *)
(***************************************************************************)
\* _detect_intent is called on every text message that is no exit message
ClassifierInvoked == last = "message" /\ Called(turn, "_extract_user_preferences")

\* the text of the generator's answer to the intent prompt, lower-cased, has "experience" in it
AnswerNamesExperience ==
    /\ ~turn.intent.raised
    /\ Occurs(<<"e","x","p","e","r","i","e","n","c","e">>,
              [k \in 1..Len(turn.intent.text) |-> LowerChar(turn.intent.text[k])])

\* C13: whenever the intent classifier is invoked it returns one of the labels
\* experience_request and casual_chat and does not raise; the label is
\* experience_request exactly when the generator's lower-cased answer contains
\* "experience", and casual_chat on every other answer and on every failure.
C13_ClassifierTotal ==
    ClassifierInvoked =>
        /\ turn.label \in {"experience_request", "casual_chat"}
        /\ turn.label = "experience_request" <=> AnswerNamesExperience

\* the classifier was invoked and raised while it built its prompt: no label,
\* and the caller answered with the apology
C13_Witness ==
    /\ ClassifierInvoked
    /\ turn.label = "none"
    /\ ~Called(turn, "generator:intent")
    /\ turn.path = "error"
    /\ ret.text = APOLOGY
    /\ IsString(turn.message)

(***************************************************************************)
(* C14: a recommendation request for which the index returns nothing       *)
(***************************************************************************)
NoCandidateTurn == last = "message" /\ Called(turn, "index:search") /\ turn.search = <<>>

\* C14: on a message classified as a recommendation request for which the
\* index returns no candidate, the call returns a reply that is not the
\* apology, with a null payload and isFarewell = false, and (the store's write
\* not failing) the file holds the assistant turn of the message, without payload.
C14_ClarifyingReply ==
    NoCandidateTurn =>
        /\ ret.text # "Sorry, I had trouble processing that. Could you say that again?"
        /\ ret.payload.null
        /\ ~ret.farewell
        /\ ~StoreFailed =>
              \E a \in AssistantTurnsAt(PersistedHistory, now - 1) :
                  a.content = ret.text /\ a.experience_data.null

\* chabot.py found no candidate, its generator raised, and the reply is the apology
C14_Witness ==
    /\ NoCandidateTurn
    /\ engine = "chabot"
    /\ turn.generator_failed
    /\ ret.text = APOLOGY
    /\ AssistantTurnsAt(PersistedHistory, now - 1) = {}

(***************************************************************************)
(* C15: the profile after one message of a client with no earlier state    *)
(***************************************************************************)
FirstMessageIsGoa ==
    /\ last = "message" /\ turns = 1 /\ prior = 0
    /\ MessageText[turn.message] = MessageText["m_goa"]
    /\ Called(turn, "_extract_user_preferences")

\* C15: for a client with empty prior state, after the single message
\* "I want an adventure trip in Goa under 5000" the profile contains the
\* interest adventure, the location goa and the budget ₹5000.
C15_GoaProfile ==
    FirstMessageIsGoa =>
        /\ "adventure" \in Range(conversation_data.user_profile.interests)
        /\ "goa" \in Range(conversation_data.user_profile.preferred_locations)
        /\ conversation_data.user_profile.budget_range = <<"₹","5","0","0","0">>

\* after that message the profile has the interest and the location, and no budget
C15_Witness ==
    /\ FirstMessageIsGoa
    /\ conversation_data.user_profile.interests = <<"adventure">>
    /\ conversation_data.user_profile.preferred_locations = <<"goa">>
    /\ conversation_data.user_profile.budget_range = <<>>
    /\ ~BudgetIn(Lower(MessageText["m_goa"])).found

(***************************************************************************)
(* ConversationMemory on its own: a caller that holds a conversation dict  *)
(* appends to it, saves it, loads, asks for the statistics and deletes.    *)
(* Here `turns` counts the saves that were written, `normal` says that no  *)
(* save failed and nothing was deleted so far, `fin` is the outcome the    *)
(* file system gives the operation, `fout` is what the operation returned  *)
(* and `ret` is the dict the last written save was given, while no other   *)
(* save or delete followed it.                                             *)
(***************************************************************************)
NoSaved == [valid |-> FALSE, data |-> DefaultConversationData(0)]

InitStore ==
    /\ engine = "chatbot"
    /\ prior = 0
    /\ store = NoFile
    /\ conversation_data = load_conversation(store, 1, TRUE)
    /\ now = 1
    /\ turns = 0
    /\ normal = TRUE
    /\ last = "init"
    /\ ret = NoSaved
    /\ turn = NoTurn
    /\ net = NoNet
    /\ fin = [ok |-> TRUE, w |-> "none"]
    /\ fout = [op |-> "none", data |-> DefaultConversationData(0)]

\* the caller changes its dict: conversation_data['history'].append({...})
CallerAppends ==
    /\ now <= MaxStoreOps
    /\ \E user_input \in {"m_goa", "m_bye"} :
          conversation_data' =
              [conversation_data EXCEPT !.history = Append(@, UserTurn(user_input, now)),
                                        !.last_interaction = now]
    /\ now' = now + 1
    /\ last' = "append"
    /\ UNCHANGED <<engine, prior, store, turns, normal, ret, turn, fin, fout, net>>

StoreSave ==
    /\ now <= MaxStoreOps
    /\ \E w \in WriteOutcomes :
          LET s == save_conversation(conversation_data, store, now, w)
          IN  /\ conversation_data' = s.cd
              /\ store' = s.store
              /\ fin' = [ok |-> w = "ok", w |-> w]
              /\ turns' = IF w = "ok" THEN turns + 1 ELSE turns
              /\ normal' = (normal /\ w = "ok")
              /\ ret' = IF w = "ok" THEN [valid |-> TRUE, data |-> s.cd] ELSE NoSaved
    /\ fout' = [op |-> "save", data |-> DefaultConversationData(0)]
    /\ now' = now + 1
    /\ last' = "save"
    /\ UNCHANGED <<engine, prior, turn, net>>

StoreLoad ==
    /\ now <= MaxStoreOps
    /\ \E readOk \in BOOLEAN :
          /\ fin' = [ok |-> readOk, w |-> "none"]
          /\ fout' = [op |-> "load", data |-> load_conversation(store, now, readOk)]
    /\ now' = now + 1
    /\ last' = "load"
    /\ UNCHANGED <<engine, prior, store, conversation_data, turns, normal, ret, turn, net>>

StoreStats ==
    /\ now <= MaxStoreOps
    /\ \E readOk \in BOOLEAN :
          /\ fin' = [ok |-> readOk, w |-> "none"]
          /\ fout' = [op |-> "stats", data |-> get_conversation_stats(store, now, readOk)]
    /\ now' = now + 1
    /\ last' = "stats"
    /\ UNCHANGED <<engine, prior, store, conversation_data, turns, normal, ret, turn, net>>

StoreDelete ==
    /\ now <= MaxStoreOps
    /\ \E delOk \in BOOLEAN :
          /\ fin' = [ok |-> delOk, w |-> "none"]
          /\ store' = delete_conversation(store, delOk)
    /\ fout' = [op |-> "delete", data |-> DefaultConversationData(0)]
    /\ ret' = NoSaved
    /\ normal' = FALSE
    /\ now' = now + 1
    /\ last' = "delete"
    /\ UNCHANGED <<engine, prior, conversation_data, turns, turn, net>>

NextStore == CallerAppends \/ StoreSave \/ StoreLoad \/ StoreStats \/ StoreDelete

SpecStore == InitStore /\ [][NextStore]_vars

(***************************************************************************)
(* C16: load answers with the default where there is nothing to read       *)
(***************************************************************************)
IsDefaultState(cd) ==
    /\ cd.history = <<>>
    /\ cd.user_profile = [interests |-> <<>>, budget_range |-> <<>>, preferred_locations |-> <<>>]
    /\ cd.session_count = 0
    /\ cd.total_messages = 0
    /\ cd.previously_discussed_experiences = <<>>
    /\ ~cd._metadata.present

EqualButTimestamps(a, b) ==
    [a EXCEPT !.first_interaction = 0, !.last_interaction = 0]
        = [b EXCEPT !.first_interaction = 0, !.last_interaction = 0]

\* C16: a load returns (it never raises); where the client has no file, or the
\* file cannot be read, it returns the default state; two loads in a row of a
\* client without a file return states equal but for the timestamps; and a
\* load leaves the store as it was, creating no file.
C16_LoadTotal ==
    [][last' = "load" =>
          /\ fout'.op = "load"
          /\ store' = store
          /\ (store.state # "ok" \/ ~fin'.ok) => IsDefaultState(fout'.data)
          /\ (last = "load" /\ store.state = "absent") =>
                 EqualButTimestamps(fout.data, fout'.data)]_vars

\* the second of two loads of a client without a file: the default again, with a
\* later timestamp, and still no file
C16_Witness ==
    /\ last = "load"
    /\ store = NoFile
    /\ now = 3
    /\ conversation_data = DefaultConversationData(1)
    /\ fout.data = DefaultConversationData(2)

(***************************************************************************)
(* C17: what was saved is what is loaded                                   *)
(***************************************************************************)
SameConversation(a, b) ==
    /\ a.history = b.history
    /\ a.user_profile = b.user_profile
    /\ a.session_count = b.session_count
    /\ a.total_messages = b.total_messages
    /\ a.first_interaction = b.first_interaction
    /\ a.last_interaction = b.last_interaction
    /\ a.previously_discussed_experiences = b.previously_discussed_experiences

\* C17: after a save that was written, a load that reads the file, with no
\* save and no delete in between, returns a state whose history, profile,
\* counters, timestamps and previously-discussed list are those of the state
\* the save was given.
C17_SaveThenLoad ==
    (last = "load" /\ fin.ok /\ ret.valid) => SameConversation(fout.data, ret.data)

\* two turns were appended, the dict was saved, and the load returned both turns
C17_Witness ==
    /\ last = "load" /\ fin.ok /\ ret.valid
    /\ store.state = "ok"
    /\ Len(fout.data.history) = 2
    /\ fout.data.history = conversation_data.history
    /\ fout.data._metadata.total_exchanges = 2
    /\ fout.data.last_interaction = 2

(***************************************************************************)
(* C18: the session counter                                                *)
(***************************************************************************)
\* the client started from the default state and `turns` saves were written since
SavesFromDefault == normal /\ turns >= 1 /\ store.state = "ok"

\* C18: after k saves that were written, for a client that started from the
\* default state, the session count in the metadata of the stored record is k,
\* and so is the session_count the statistics report.
C18_SessionCounted ==
    SavesFromDefault =>
        /\ store.data._metadata.session_count = turns
        /\ (last = "stats" /\ fin.ok) => fout.data.session_count = turns

\* after two written saves the metadata says one session and the statistics none
C18_Witness ==
    /\ SavesFromDefault
    /\ turns = 2
    /\ last = "stats" /\ fin.ok
    /\ store.data._metadata.session_count = 1
    /\ store.data.session_count = 0
    /\ fout.data.session_count = 0

(***************************************************************************)
(* C19: a save that stops part-way                                         *)
(***************************************************************************)
\* C19: whatever becomes of a save over an existing record, a load that reads
\* the file afterwards returns the record the file held before the save or the
\* state the save was given, never the default in place of the record.
C19_SaveAtomic ==
    [][(last' = "save" /\ store.state = "ok") =>
          LET loaded == load_conversation(store', now', TRUE)
          IN  \/ SameConversation(loaded, store.data)
              \/ SameConversation(loaded, conversation_data')]_vars

\* a turn was appended and saved, a second save stopped in pickle.dump after
\* the file was opened for writing, and the load that followed returned the default
C19_Witness ==
    /\ last = "load" /\ fin.ok
    /\ now = 5
    /\ turns = 1
    /\ Len(conversation_data.history) = 1
    /\ conversation_data._metadata.total_exchanges = 1
    /\ store.state = "corrupt"
    /\ IsDefaultState(fout.data)

(***************************************************************************)
(* C20: a save that fails during a turn                                    *)
(***************************************************************************)
\* what the generator and the index answered during the turn, with a store that writes
WithWritingStore(t) ==
    [intent |-> t.intent, reply |-> t.reply, search |-> t.search, gen |-> t.gen, write |-> "ok"]

\* C20: when the write of the store fails during a turn, the call does not
\* raise and returns the reply text, the payload and the farewell flag that the
\* same turn returns with a store that writes, and the engine's in-memory
\* conversation is the one of that turn, holding its assistant turn.
C20_FailedSaveKeepsTurn ==
    [][(last' = "message" /\ turn'.write \in {"open_failed", "dump_failed"}) =>
          LET r == detect_intent_and_respond(engine, conversation_data, store, turn'.message,
                                             WithWritingStore(turn'), now)
          IN  /\ ~ret'.raised
              /\ ret'.text = r.text
              /\ ret'.payload = r.payload
              /\ ret'.farewell = r.farewell
              /\ conversation_data' = r.cd
              /\ \E a \in AssistantTurnsAt(conversation_data'.history, now) :
                    a.content = ret'.text]_vars

\* the write failed on a turn that answered with verified records: the reply and
\* its payload were returned, the turn is in memory and not in the file
C20_Witness ==
    /\ last = "message" /\ StoreFailed
    /\ turn.path = "verified"
    /\ ~ret.raised /\ ~ret.payload.null /\ ret.text # APOLOGY
    /\ \E a \in AssistantTurnsAt(conversation_data.history, now - 1) : a.content = ret.text
    /\ AssistantTurnsAt(PersistedHistory, now - 1) = {}

(***************************************************************************)
(* The transport: websocket_endpoint and the REST endpoints of main.py,    *)
(* and the ConnectionManager.  Two websockets, w1 and w2, are opened under *)
(* the client id A and one, w3, under B.  The engine of a turn runs up to  *)
(* its first await (asyncio.to_thread around the generator) in the step    *)
(* that receives the frame; the generator's answer and the rest of the     *)
(* turn are later steps, so that other handlers run in between as they do  *)
(* on the event loop.  The awaits of one turn are taken as one.  The file  *)
(* system and the sockets do not fail in these runs.                       *)
(***************************************************************************)
Clients == {"A", "B"}

Sockets == {"w1", "w2", "w3"}

\* the client_id in the path each websocket was opened with
ClientOf == [w \in Sockets |-> IF w = "w3" THEN "B" ELSE "A"]

\* hashlib.md5(client_id.encode()).hexdigest()[:16] of the two client ids
safe_id == [c \in Clients |-> IF c = "A" THEN "7fc56270e7a70fa8" ELSE "9d5ed678fe57bcca"]

\* a file name that does not depend on the client
get_memory_filepath_shared == [c \in Clients |-> "memory_.pkl"]

get_memory_filepath == [c \in Clients |-> "memory_" \o safe_id[c] \o ".pkl"]

Paths == {get_memory_filepath[c] : c \in Clients}

TransportMessages == {"m_goa", "m_bye"}

\* the "type" of an inbound frame; ping is a type the endpoint does not know
InboundTypes == {"chat", "user_message", "clear_memory", "get_stats", "ping"}

\* the dispatch without the alias
message_type_plain(type) == type

\* message_type = data.get("type", "chat"), with user_message turned into chat
message_type(type) == IF type = "user_message" THEN "chat" ELSE type

\* a generator and an index that answer a recommendation request
Recommending ==
    [intent |-> [raised |-> FALSE,
                 text |-> <<"e","x","p","e","r","i","e","n","c","e","_","r","e","q","u","e","s","t">>],
     reply |-> NoReply,
     search |-> <<Candidate("e1", 7250), Candidate("e2", 7250), Candidate("e1", 8800),
                  Candidate("e3", 8800), Candidate("e4", 7250)>>,
     gen |-> [raised |-> FALSE,
              json |-> Data(PayloadKeys, "generated intro", <<Faithful("e1")>>, "generated closing")],
     write |-> "ok"]

TransportEnvironments == {PlainEnvironment, Recommending}

StatsKeys == {"total_messages", "session_count", "first_interaction", "last_interaction",
              "previously_discussed", "known_interests"}

\* the dict get_conversation_stats returns
StatsObject(st, t) == [keys |-> StatsKeys, values |-> get_conversation_stats(st, t, TRUE)]

\* {}
NoStats == [keys |-> {}, values |-> get_conversation_stats(NoFile, 0, TRUE)]

\* an outbound JSON object: its keys and the values the claims look at
Frame(type, keys, message, experiences, data, t) ==
    [type |-> type, keys |-> keys, message |-> message, experiences |-> experiences,
     data |-> data, timestamp |-> t, to |-> "none", for |-> 0]

WelcomeFrame(t) ==
    Frame("system", {"type", "message", "client_id", "timestamp"},
          "Connected to Sales Experience Chatbot!", NoData, NoStats, t)

NotInitializedFrame ==
    Frame("error", {"type", "message"}, "AI brain not initialized. Please reconnect.",
          NoData, NoStats, 0)

\* the typing frame without its timestamp
TypingFrameBare(t) == Frame("typing", {"type"}, "", NoData, NoStats, 0)

TypingFrame(t) == Frame("typing", {"type", "timestamp"}, "", NoData, NoStats, t)

FarewellFrame(text, t) == Frame("farewell", {"type", "message", "timestamp"}, text, NoData, NoStats, t)

ResponseFrame(text, experience_data, t) ==
    Frame("response", {"type", "message", "experiences", "timestamp"}, text, experience_data,
          NoStats, t)

ErrorFrame ==
    Frame("error", {"type", "message"}, "Sorry, I encountered an error. Please try again.",
          NoData, NoStats, 0)

ClearedFrame(t) ==
    Frame("system", {"type", "message", "timestamp"}, "Conversation memory cleared! Starting fresh.",
          NoData, NoStats, t)

StatsFrame(stats, t) == Frame("stats", {"type", "data", "timestamp"}, "", NoData, stats, t)

\* lines 117-145 of main.py: the frame for what the engine returned or raised
ReplyFrame(r, t) ==
    IF r.raised THEN ErrorFrame
    ELSE IF r.farewell THEN FarewellFrame(r.text, t)
         ELSE ResponseFrame(r.text, r.payload, t)

\* send_message: the frame goes to the websocket registered under the client id, if any;
\* `seq` numbers the inbound frame that the outbound one belongs to
send_message(n, client_id, frame, seq) ==
    IF n.active_connections[client_id] = "none" THEN n
    ELSE [n EXCEPT !.sent = Append(@, [frame EXCEPT !.to = n.active_connections[client_id],
                                                    !.for = seq])]

Idling == [stage |-> "idle", message |-> "", env |-> PlainEnvironment, seq |-> 0]

NoBrain == [present |-> FALSE, cd |-> DefaultConversationData(0)]

NoRestResponse == [op |-> "none", client_id |-> "", keys |-> {}, stats |-> NoStats]

Event(op, w, c, type, message, seq) ==
    [op |-> op, socket |-> w, client_id |-> c, type |-> type, message |-> message, seq |-> seq]

\* the server after start-up: no connection, no engine instance, and the files an
\* earlier run of the server left
StartedServer(files) ==
    [serving |-> TRUE,
     active_connections |-> [c \in Clients |-> "none"],
     ai_instances |-> [c \in Clients |-> NoBrain],
     files |-> files,
     open |-> {},
     pending |-> [w \in Sockets |-> Idling],
     sent |-> <<>>,
     count |-> 0,
     event |-> Event("start", "none", "", "", "", 0),
     rest |-> NoRestResponse]

InitTransport ==
    /\ engine = "chabot"
    /\ prior = 0
    /\ store = NoFile
    /\ conversation_data = DefaultConversationData(0)
    /\ now = 2
    /\ turns = 0
    /\ normal = TRUE
    /\ last = "init"
    /\ ret = NoReturn
    /\ turn = NoTurn
    /\ Pure
    /\ \E files \in [Paths -> {NoFile, Earlier("chabot", 1).store}] : net = StartedServer(files)

Rest == <<engine, conversation_data, store, ret, turn, turns, prior, normal, fin, fout>>

FileOf(n, c) == n.files[get_memory_filepath[c]]

\* a connect that registers the websocket and creates no engine instance
ConnectUnprepared(w) ==
    /\ net.count < MaxFrames
    /\ w \notin net.open
    /\ LET c == ClientOf[w]
           seq == net.count + 1
           n == [net EXCEPT !.active_connections[c] = w,
                            !.open = @ \cup {w},
                            !.count = seq,
                            !.event = Event("connect", w, c, "", "", seq)]
       IN  net' = send_message(n, c, WelcomeFrame(now), seq)
    /\ now' = now + 1
    /\ last' = "connect"
    /\ UNCHANGED Rest

\* manager.connect and the welcome frame
Connect(w) ==
    /\ net.count < MaxFrames
    /\ w \notin net.open
    /\ LET c == ClientOf[w]
           seq == net.count + 1
           n == [net EXCEPT !.active_connections[c] = w,
                            !.open = @ \cup {w},
                            !.ai_instances[c] =
                                IF @.present THEN @
                                ELSE [present |-> TRUE,
                                      cd |-> load_conversation(FileOf(net, c), now, TRUE)],
                            !.count = seq,
                            !.event = Event("connect", w, c, "", "", seq)]
       IN  net' = send_message(n, c, WelcomeFrame(now), seq)
    /\ now' = now + 1
    /\ last' = "connect"
    /\ UNCHANGED Rest

\* a disconnect that also drops the engine instance of the client id
DisconnectForgetting(w) ==
    /\ net.count < MaxFrames
    /\ w \in net.open
    /\ net.pending[w].stage = "idle"
    /\ LET c == ClientOf[w]
           seq == net.count + 1
       IN  net' = [net EXCEPT !.open = @ \ {w},
                              !.active_connections[c] = "none",
                              !.ai_instances[c] = NoBrain,
                              !.count = seq,
                              !.event = Event("disconnect", w, c, "", "", seq)]
    /\ now' = now + 1
    /\ last' = "disconnect"
    /\ UNCHANGED Rest

\* the client closes a websocket on which no turn is running: receive_json raises
\* WebSocketDisconnect and manager.disconnect drops the entry of the client id
Disconnect(w) ==
    /\ net.count < MaxFrames
    /\ w \in net.open
    /\ net.pending[w].stage = "idle"
    /\ LET c == ClientOf[w]
           seq == net.count + 1
       IN  net' = [net EXCEPT !.open = @ \ {w},
                              !.active_connections[c] = "none",
                              !.count = seq,
                              !.event = Event("disconnect", w, c, "", "", seq)]
    /\ now' = now + 1
    /\ last' = "disconnect"
    /\ UNCHANGED Rest

Classified == <<"history.append", "check_exit_intent", "_extract_user_preferences", "generator:intent">>

\* lines 100-145 of main.py up to the engine's first await: the typing frame, the user
\* turn, the exit check and the preferences; the exit turn has no await and ends here
chat(old, w, type, m, t) ==
    LET c == ClientOf[w]
        seq == old.count + 1
        ai_brain == old.ai_instances[c]
        n == [old EXCEPT !.count = seq, !.event = Event("frame", w, c, type, m, seq)]
        typed == send_message(n, c, TypingFrame(t), seq)
    IN  IF ~ai_brain.present
        THEN send_message(n, c, NotInitializedFrame, seq)
        ELSE IF ExitIntent[m]
             THEN LET r == detect_intent_and_respond("chabot", ai_brain.cd, FileOf(old, c),
                                                     m, PlainEnvironment, t)
                      done == [typed EXCEPT !.ai_instances[c].cd = r.cd,
                                            !.files[get_memory_filepath[c]] = r.store]
                  IN  send_message(done, c, ReplyFrame(r, t), seq)
             ELSE [typed EXCEPT
                      !.ai_instances[c].cd = heard_and_profiled(ai_brain.cd, m, t),
                      !.pending[w] = [stage |-> "waiting", message |-> m,
                                      env |-> PlainEnvironment, seq |-> seq]]

\* a frame {"type": type, "message": m} that the dispatch takes for a chat message
ChatFrame(w) ==
    /\ net.count < MaxFrames
    /\ w \in net.open
    /\ net.pending[w].stage = "idle"
    /\ \E type \in InboundTypes, m \in TransportMessages :
          /\ message_type(type) = "chat"
          /\ net' = chat(net, w, type, m, now)
    /\ now' = now + 1
    /\ last' = "chat"
    /\ UNCHANGED Rest

\* the generator and the index answer the turn that waits for them
GeneratorReturns(w) ==
    /\ net.pending[w].stage = "waiting"
    /\ \E env \in TransportEnvironments :
          net' = [net EXCEPT !.pending[w].stage = "returned", !.pending[w].env = env]
    /\ last' = "generator"
    /\ UNCHANGED <<now, Rest>>

\* the rest of the turn: the reply of the intent's branch, _save_to_memory, the reply frame
FinishTurn(w) ==
    /\ net.pending[w].stage = "returned"
    /\ LET c == ClientOf[w]
           p == net.pending[w]
           r == Catch(answer("chabot", net.ai_instances[c].cd, FileOf(net, c), p.message,
                             p.env, now, Classified))
           done == [net EXCEPT !.ai_instances[c].cd = r.cd,
                               !.files[get_memory_filepath[c]] = r.store,
                               !.pending[w] = Idling]
       IN  net' = send_message(done, c, ReplyFrame(r, now), p.seq)
    /\ now' = now + 1
    /\ last' = "finish"
    /\ UNCHANGED Rest

\* manager.clear_client_memory
clear_client_memory(n, client_id, t) ==
    IF n.ai_instances[client_id].present
    THEN LET cleared == clear_conversation_memory(FileOf(n, client_id), t, TRUE, TRUE)
         IN  [n EXCEPT !.ai_instances[client_id].cd = cleared.cd,
                       !.files[get_memory_filepath[client_id]] = cleared.store]
    ELSE n

\* manager.get_client_stats
get_client_stats(n, client_id, t) ==
    IF n.ai_instances[client_id].present THEN StatsObject(FileOf(n, client_id), t) ELSE NoStats

\* a frame {"type": "clear_memory"}
ClearFrame(w) ==
    /\ net.count < MaxFrames
    /\ w \in net.open
    /\ net.pending[w].stage = "idle"
    /\ \E type \in InboundTypes :
          /\ message_type(type) = "clear_memory"
          /\ LET c == ClientOf[w]
                 seq == net.count + 1
                 n == [net EXCEPT !.count = seq, !.event = Event("frame", w, c, type, "", seq)]
             IN  net' = send_message(clear_client_memory(n, c, now), c, ClearedFrame(now), seq)
    /\ now' = now + 1
    /\ last' = "clear_memory"
    /\ UNCHANGED Rest

\* a frame {"type": "get_stats"}
GetStatsFrame(w) ==
    /\ net.count < MaxFrames
    /\ w \in net.open
    /\ net.pending[w].stage = "idle"
    /\ \E type \in InboundTypes :
          /\ message_type(type) = "get_stats"
          /\ LET c == ClientOf[w]
                 seq == net.count + 1
                 n == [net EXCEPT !.count = seq, !.event = Event("frame", w, c, type, "", seq)]
             IN  net' = send_message(n, c, StatsFrame(get_client_stats(n, c, now), now), seq)
    /\ now' = now + 1
    /\ last' = "get_stats"
    /\ UNCHANGED Rest

\* a frame of another type, or a chat frame without a message: a warning is logged
OtherFrame(w) ==
    /\ net.count < MaxFrames
    /\ w \in net.open
    /\ net.pending[w].stage = "idle"
    /\ \E type \in InboundTypes, m \in {"", "m_goa"} :
          /\ ~(message_type(type) = "chat" /\ m # "")
          /\ message_type(type) \notin {"clear_memory", "get_stats"}
          /\ LET c == ClientOf[w]
                 seq == net.count + 1
             IN  net' = [net EXCEPT !.count = seq, !.event = Event("frame", w, c, type, m, seq)]
    /\ now' = now + 1
    /\ last' = "other"
    /\ UNCHANGED Rest

\* GET /api/stats/{client_id}
RestStats(c) ==
    /\ net.count < MaxFrames
    /\ LET seq == net.count + 1
       IN  net' = [net EXCEPT !.count = seq,
                              !.event = Event("rest", "none", c, "get_stats", "", seq),
                              !.rest = [op |-> "stats", client_id |-> c,
                                        keys |-> {"client_id", "stats", "timestamp"},
                                        stats |-> get_client_stats(net, c, now)]]
    /\ now' = now + 1
    /\ last' = "rest_stats"
    /\ UNCHANGED Rest

\* POST /api/clear_memory/{client_id}
RestClear(c) ==
    /\ net.count < MaxFrames
    /\ LET seq == net.count + 1
           n == clear_client_memory(net, c, now)
       IN  net' = [n EXCEPT !.count = seq,
                            !.event = Event("rest", "none", c, "clear_memory", "", seq),
                            !.rest = [op |-> "clear_memory", client_id |-> c,
                                      keys |-> {"client_id", "message", "timestamp"},
                                      stats |-> NoStats]]
    /\ now' = now + 1
    /\ last' = "rest_clear"
    /\ UNCHANGED Rest

NextTransport ==
    \/ \E w \in Sockets : Connect(w)
    \/ \E w \in Sockets : Disconnect(w)
    \/ \E w \in Sockets : ChatFrame(w)
    \/ \E w \in Sockets : GeneratorReturns(w)
    \/ \E w \in Sockets : FinishTurn(w)
    \/ \E w \in Sockets : ClearFrame(w)
    \/ \E w \in Sockets : GetStatsFrame(w)
    \/ \E w \in Sockets : OtherFrame(w)
    \/ \E c \in Clients : RestStats(c)
    \/ \E c \in Clients : RestClear(c)

SpecTransport == InitTransport /\ [][NextTransport]_vars

(***************************************************************************)
(* C21: clearing the memory of a client                                    *)
(***************************************************************************)
JustCleared == last \in {"clear_memory", "rest_clear"}

\* C21: after clearMemory for a client id returns, by the clear_memory frame or
\* by the REST endpoint, with or without an engine instance for the id in the
\* registry, the client has no persisted record and a load returns the default state.
C21_ClearedMeansAbsent ==
    JustCleared =>
        /\ FileOf(net, net.event.client_id).state = "absent"
        /\ IsDefaultState(load_conversation(FileOf(net, net.event.client_id), now, TRUE))

\* the server holds a record of A from an earlier run and no engine instance for A;
\* the REST endpoint answered "Memory cleared successfully" and the record is still there
C21_Witness ==
    /\ last = "rest_clear"
    /\ net.event.client_id = "A"
    /\ net.rest.op = "clear_memory"
    /\ ~net.ai_instances["A"].present
    /\ FileOf(net, "A").state = "ok"
    /\ Len(load_conversation(FileOf(net, "A"), now, TRUE).history) > 0

(***************************************************************************)
(* C22: the order of the turns of one client                               *)
(***************************************************************************)
\* a turn of the client is between its first await and its _save_to_memory
TurnInFlight(n, c) == \E w \in Sockets : ClientOf[w] = c /\ n.pending[w].stage # "idle"

\* C22: the engine never begins to process a message of a client before the
\* turn of that client's previous message has completed its persistence step,
\* also when two websockets are open under the client id.
C22_TurnsOrdered ==
    [][last' = "chat" => ~TurnInFlight(net, net'.event.client_id)]_vars

\* two websockets are open under A, each has sent a chat frame, and the shared
\* engine holds the two user turns one after the other with neither turn answered
C22_Witness ==
    /\ net.open = {"w1", "w2"}
    /\ net.pending["w1"].stage = "waiting"
    /\ net.pending["w2"].stage = "waiting"
    /\ LET h == net.ai_instances["A"].cd.history
       IN  /\ Len(h) >= 2
           /\ h[Len(h) - 1].role = "user" /\ h[Len(h)].role = "user"
           /\ h[Len(h) - 1].timestamp < h[Len(h)].timestamp

(***************************************************************************)
(* C23: the clients do not touch each other's state                        *)
(***************************************************************************)
\* the client a step of the transport acts for
Actor(n, m) ==
    IF m.count # n.count THEN m.event.client_id
    ELSE ClientOf[CHOOSE w \in Sockets : m.pending[w] # n.pending[w]]

KnownTypes == {"chat", "user_message", "clear_memory", "get_stats"}

InboundFrame == net'.count # net.count /\ net'.event.op = "frame"

\* C24: a frame of type user_message is treated exactly as the frame of type
\* chat with the same message, and on a frame whose type is none of chat,
\* user_message, clear_memory and get_stats nothing is sent and neither an
\* engine nor a file changes.
C24_AliasAndUnknown ==
    [][InboundFrame =>
          /\ (net'.event.type = "user_message" /\ net'.event.message # "") =>
                [net' EXCEPT !.event.type = "chat"]
                    = chat(net, net'.event.socket, "chat", net'.event.message, now)
          /\ net'.event.type \notin KnownTypes =>
                /\ net'.sent = net.sent
                /\ net'.ai_instances = net.ai_instances
                /\ net'.files = net.files
                /\ net'.pending = net.pending]_vars

\* a user_message frame was answered with the typing frame and the farewell, and a
\* ping frame that carried a message was then received and answered with nothing
C24_Witness ==
    /\ last = "other"
    /\ net.event.type = "ping" /\ net.event.message = "m_goa"
    /\ Len(net.sent) = 3
    /\ net.sent[2].type = "typing" /\ net.sent[3].type = "farewell"
    /\ net.sent[3].for = net.event.seq - 1
    /\ FileOf(net, "A").state = "ok"
    /\ Len(FileOf(net, "A").data.history) = 3

(***************************************************************************)
(* C25: the typing frame and the reply frame of a chat message             *)
(***************************************************************************)
\* the frames a step has sent
NewFrames == SubSeq(net'.sent, Len(net.sent) + 1, Len(net'.sent))

TypingFor(sent, seq) == {k \in 1..Len(sent) : sent[k].type = "typing" /\ sent[k].for = seq}

\* the turn that a FinishTurn step completes
Finishing == CHOOSE w \in Sockets : net.pending[w].stage = "returned" /\ net'.pending[w].stage = "idle"

\* C25: for a chat frame with a message on a connected client the transport
\* sends one typing frame before the engine works and then one frame of type
\* response, farewell or error for that message; no response or farewell goes
\* without the typing frame of its message before it, and the reply is a
\* farewell exactly when the engine returned isFarewell = true.
C25_TypingThenReply ==
    [][/\ last' = "chat" =>
             /\ Len(NewFrames) >= 1
             /\ NewFrames[1].type = "typing" /\ NewFrames[1].for = net'.event.seq
             /\ IF ExitIntent[net'.event.message]
                THEN /\ Len(NewFrames) = 2
                     /\ NewFrames[2].type = "farewell" /\ NewFrames[2].for = net'.event.seq
                ELSE Len(NewFrames) = 1
       /\ last' = "finish" =>
             /\ Len(NewFrames) = 1
             /\ NewFrames[1].type \in {"response", "error"}
             /\ NewFrames[1].for = net.pending[Finishing].seq
             /\ Cardinality(TypingFor(net.sent, net.pending[Finishing].seq)) = 1]_vars

\* w1 and w2 were opened under A and one of them was closed; the chat frame on the
\* websocket that is still open was handled by the engine and nothing was sent for it
C25_Witness ==
    /\ last = "chat"
    /\ net.event.socket \in net.open
    /\ net.active_connections[net.event.client_id] = "none"
    /\ ExitIntent[net.event.message]
    /\ Len(FileOf(net, net.event.client_id).data.history) >= 3
    /\ \A k \in 1..Len(net.sent) : net.sent[k].for # net.event.seq

(***************************************************************************)
(* C26: the timestamp of the outbound frames                               *)
(***************************************************************************)
SentTypes == {net.sent[k].type : k \in 1..Len(net.sent)}

SpecTransportLive ==
    /\ InitTransport
    /\ [][NextTransport]_vars
    /\ \A w \in Sockets : WF_vars(FinishTurn(w))

\* C27: every chat message gets its reply frame and its websocket goes on to
\* the next frame, also when the generator or the index does not return: the
\* call is given up after a bounded time and the fallback or error reply is sent.
C27_EveryChatAnswered ==
    \A w \in Sockets : (net.pending[w].stage # "idle") ~> (net.pending[w].stage = "idle")

\* a turn waits for the generator: its typing frame was sent, no reply frame was
\* sent, and the websocket's loop takes no further frame
C27_Witness ==
    \E w \in Sockets :
        /\ net.pending[w].stage = "waiting"
        /\ \E k \in 1..Len(net.sent) :
              net.sent[k].type = "typing" /\ net.sent[k].for = net.pending[w].seq
        /\ \A k \in 1..Len(net.sent) :
              net.sent[k].for = net.pending[w].seq => net.sent[k].type = "typing"
        /\ ~ENABLED ChatFrame(w)
        /\ ~ENABLED FinishTurn(w)
        /\ net.count < MaxFrames

(***************************************************************************)
(* C28: the statistics of a client                                         *)
(***************************************************************************)
\* the stats object of the last answer to a stats request
StatsAnswered ==
    IF last = "rest_stats" THEN net.rest.stats ELSE net.sent[Len(net.sent)].data

StatsRequested ==
    \/ last = "rest_stats"
    \/ last = "get_stats" /\ Len(net.sent) > 0 /\ net.sent[Len(net.sent)].for = net.event.seq

\* C28: getStats returns for every client id, also one with a persisted record
\* and no engine instance and one never seen, an object with the six fields
\* total_messages, session_count, first_interaction, last_interaction,
\* previously_discussed and known_interests, derived from the client's stored state.
C28_StatsForEveryClient ==
    StatsRequested =>
        StatsAnswered = StatsObject(FileOf(net, net.event.client_id), now - 1)

\* A has a record of an earlier run and no engine instance: the endpoint answered
\* with an empty stats object
C28_Witness ==
    /\ last = "rest_stats"
    /\ net.event.client_id = "A"
    /\ ~net.ai_instances["A"].present
    /\ FileOf(net, "A").state = "ok"
    /\ FileOf(net, "A").data.total_messages > 0
    /\ net.rest.stats.keys = {}
    /\ net.rest.keys = {"client_id", "stats", "timestamp"}

(***************************************************************************)
(* C29: the size of a payload and the ids of its items                     *)
(***************************************************************************)
PayloadReturned == last = "message" /\ ~ret.payload.null

DistinctIds(items) ==
    \A j, k \in 1..Len(items) : j # k => items[j].id # items[k].id

\* C29: every payload returned by a call has at most MAX_RESULTS items and no
\* two of its items have the same id, whatever the generator produced.
C29_PayloadBounded ==
    PayloadReturned =>
        /\ Len(ret.payload.experiences) <= MAX_RESULTS
        /\ DistinctIds(ret.payload.experiences)

\* chatbot.py was offered three candidates, the generator listed two of them twice,
\* and the verified payload has four items, two pairs with the same id
C29_Witness ==
    /\ PayloadReturned
    /\ engine = "chatbot"
    /\ turn.path = "verified"
    /\ turn.gen.json.experiences = Overlong
    /\ Len(TopExperiences(turn.search)) = MAX_RESULTS
    /\ Len(ret.payload.experiences) = 4
    /\ ret.payload.experiences[1].id = ret.payload.experiences[3].id

(***************************************************************************)
(* C30: the provenance tag of assistant turns                              *)
(***************************************************************************)
AssistantTurns(history) ==
    {history[k] : k \in {j \in 1..Len(history) : history[j].role = "assistant"}}

HasItems(d) == ~d.null /\ Len(d.experiences) >= 1

TagMatchesPayload(a) ==
    /\ a.data_source \in {"database_verified", "conversational"}
    /\ a.data_source = "database_verified" <=> HasItems(a.experience_data)
    /\ a.data_source = "conversational" <=> a.experience_data.null

\* C30: every assistant turn of the history carries a provenance tag, which is
\* database_verified exactly when the turn has a payload with at least one item
\* and conversational exactly when the turn has no payload.
C30_ProvenanceTag ==
    \A a \in AssistantTurns(conversation_data.history) : TagMatchesPayload(a)

\* one conversation holds a turn with a payload of items and a turn without a payload
C30_Witness ==
    /\ \E a \in AssistantTurns(conversation_data.history) : HasItems(a.experience_data)
    /\ \E a \in AssistantTurns(conversation_data.history) : a.experience_data.null

(***************************************************************************)
(* C31: a payload only on a recommendation turn with candidates            *)
(***************************************************************************)
IndexQueried == \E k \in 1..Len(turn.calls) : turn.calls[k] = "index:search"

\* the replies that recommend nothing: casual, farewell, clarifying, error
PlainReply ==
    turn.path \in {"casual", "casual_failed", "farewell", "no_results", "generator_failed", "error"}

\* C31: a call returns a payload only on a turn classified as a recommendation request
\* for which the index returned at least one candidate; casual, farewell, clarifying
\* and error replies have no payload, and the index is not queried on a turn
\* classified casual nor on an exit turn.
C31_PayloadOnlyWhenRecommending ==
    last = "message" =>
        /\ ~ret.payload.null => (turn.label = "experience_request" /\ turn.search # <<>>)
        /\ PlainReply => ret.payload.null
        /\ (turn.label = "casual_chat" \/ ExitMessage \/ ret.farewell) => ~IndexQueried

\* the last turn returned a payload after a search that found candidates, and the turn
\* before it was answered casually, with no payload
C31_Witness ==
    /\ last = "message"
    /\ ~ret.payload.null
    /\ turn.label = "experience_request"
    /\ IndexQueried
    /\ turn.search # <<>>
    /\ turns = 2
    /\ prior = 0
    /\ \E a \in AssistantTurns(conversation_data.history) :
          a.experience_data.null /\ a.content = "generated reply"

(***************************************************************************)
(* The verification pass on one generated item: why_perfect                *)
(***************************************************************************)
\* a Python string as the sequence of its characters
Chars(s) == [i \in 1..Len(s) |-> SubSeq(s, i, i)]

\* a text of n characters that are no whitespace
Body(n) == [i \in 1..n |-> "x"]

\* the catalog fields a justification is synthesized from
Described(category, location, description) ==
    [category |-> Chars(category), location |-> Chars(location),
     description |-> Chars(description)]

\* one record for each branch of _generate_professional_why_perfect
DescribedRecords ==
    {Described("Adventure", "Goa", "River rafting with a guide"),
     Described("Water Sports", "Goa", "A thrilling ride"),
     Described("Wellness", "Kerala", "Ayurveda"),
     Described("Dining", "Goa", "A romantic dinner for a couple"),
     Described("Cultural", "Jaipur", "Old city walk"),
     Described("Food", "Goa", "Street food tour")}

\* _generate_professional_why_perfect
generate_professional_why_perfect(experience, user_input) ==
    LET category == Lower(experience.category)
        location == experience.location
        description == Lower(experience.description)
        user_input_lower == Lower(user_input)
    IN  IF Contains(category, Chars("adventure")) \/ Contains(description, Chars("thrill"))
        THEN Chars("Perfect for adventure enthusiasts! This ") \o category
             \o Chars(" experience in ") \o location
             \o Chars(" delivers excitement and unforgettable thrills.")
        ELSE IF \/ Contains(description, Chars("spa"))
                \/ Contains(description, Chars("relax"))
                \/ Contains(category, Chars("wellness"))
        THEN Chars("Ideal for unwinding and rejuvenation! This ") \o location
             \o Chars(" experience offers the peaceful escape with professional care.")
        ELSE IF Contains(description, Chars("romantic")) \/ Contains(description, Chars("couple"))
        THEN Chars("Perfect romantic getaway! This ") \o category
             \o Chars(" experience in ") \o location
             \o Chars(" creates intimate moments and lasting memories.")
        ELSE IF Contains(category, Chars("cultural")) \/ Contains(description, Chars("heritage"))
        THEN Chars("Immerse yourself in authentic culture! This ") \o location
             \o Chars(" experience showcases rich heritage and traditions.")
        ELSE IF Contains(user_input_lower, Lower(location))
        THEN Chars("Excellent choice for ") \o location \o Chars("! This ") \o category
             \o Chars(" experience offers unique value perfectly matching your destination preference.")
        ELSE Chars("Great match for your interests! This ") \o category
             \o Chars(" experience in ") \o location
             \o Chars(" offers authentic value and memorable moments.")

\* a length test that lets both ends in
KeepsWhyPerfectInclusive(n) == n >= 20 /\ n <= 300

\* `len(why_perfect) > 20 and len(why_perfect) < 300`
KeepsWhyPerfect(n) == n > 20 /\ n < 300

\* exp.get('why_perfect', ''): no key, a string, or a JSON value that is no string
NoJustification == [kind |-> "missing", text |-> <<>>]
NotAString == [kind |-> "other", text |-> <<>>]
Justification(text) == [kind |-> "string", text |-> text]

\* the why_perfect of the verified item; .strip() raises on a value that is no string
verified_why_perfect(exp, db_exp, last_content) ==
    IF exp.kind = "other"
    THEN [raised |-> TRUE, why_perfect |-> <<>>]
    ELSE LET why_perfect == Strip(exp.text)
         IN  [raised |-> FALSE,
              why_perfect |-> IF why_perfect # <<>> /\ KeepsWhyPerfect(Len(why_perfect))
                              THEN why_perfect
                              ELSE generate_professional_why_perfect(db_exp, last_content)]

\* the why_perfect the returned payload has for the record: the verified one, or the
\* one of _create_fallback_response when the verification raised
returned_why_perfect(exp, db_exp, last_content, user_input) ==
    LET v == verified_why_perfect(exp, db_exp, last_content)
    IN  IF v.raised
        THEN generate_professional_why_perfect(db_exp, user_input)
        ELSE v.why_perfect

\* lengths around the two ends of the test
WhyLengths == {0, 1, 19, 20, 21, 150, 299, 300, 301}

Pads == {<<>>, <<" ">>, <<"\n", " ">>}

GeneratedJustifications ==
    {NoJustification, NotAString}
        \cup {Justification(l \o Body(n) \o r) : n \in WhyLengths, l \in Pads, r \in Pads}

UserInputs == {Chars("something in goa"), Chars("hello")}

InitWhy ==
    /\ Idle
    /\ fin \in [exp : GeneratedJustifications, db_exp : DescribedRecords,
                user_input : UserInputs, last_content : UserInputs]
    /\ fout = NotApplied

ApplyWhy ==
    /\ ~fout.done
    /\ fout' = [done |-> TRUE,
                raised |-> verified_why_perfect(fin.exp, fin.db_exp, fin.last_content).raised,
                why_perfect |-> returned_why_perfect(fin.exp, fin.db_exp, fin.last_content,
                                                     fin.user_input)]
    /\ UNCHANGED <<fin, Engine>>

SpecWhy == InitWhy /\ [][ApplyWhy]_vars

(***************************************************************************)
(* C32: which generated justifications are kept                            *)
(***************************************************************************)
Synthesized ==
    {generate_professional_why_perfect(fin.db_exp, fin.user_input),
     generate_professional_why_perfect(fin.db_exp, fin.last_content)}

TrimmedJustification == Strip(fin.exp.text)

JustificationRule(lo, hi) ==
    fout.done =>
        /\ fout.why_perfect # <<>>
        /\ IF /\ fin.exp.kind = "string"
              /\ Len(TrimmedJustification) >= lo
              /\ Len(TrimmedJustification) <= hi
           THEN fout.why_perfect = TrimmedJustification
           ELSE fout.why_perfect \in Synthesized

\* C32 as stated: a generated justification is kept exactly when its trimmed length
\* is within 20 to 300 characters, both ends included, and is otherwise replaced by
\* the synthesized one; the item's justification is never empty.
C32_KeptWithin20To300 == JustificationRule(20, 300)

\* C32 as amended: a generated justification is kept exactly when its trimmed length
\* is within 21 to 299 characters, both ends included, and is otherwise replaced by
\* the synthesized one; the item's justification is never empty.
C32_KeptWithin21To299 == JustificationRule(21, 299)

\* a padded justification of 299 characters was kept, trimmed
C32_Witness ==
    /\ fout.done
    /\ fin.exp.kind = "string"
    /\ Len(fin.exp.text) > 299
    /\ Len(TrimmedJustification) = 299
    /\ fout.why_perfect = TrimmedJustification

(***************************************************************************)
(* The verification pass on one generated item: highlights                 *)
(***************************************************************************)
\* str.split('.'): the pieces between the periods, empty ones included
SplitPeriods(t) ==
    LET dots == {i \in 1..Len(t) : t[i] = "."}
        n == Cardinality(dots)
        pos(k) == IF k = 0 THEN 0
                  ELSE IF k = n + 1 THEN Len(t) + 1
                  ELSE CHOOSE i \in dots : Cardinality({j \in dots : j <= i}) = k
    IN  [k \in 1..(n + 1) |-> SubSeq(t, pos(k - 1) + 1, pos(k) - 1)]

\* str.endswith(('.', '!', '?'))
EndsSentence(t) == t # <<>> /\ t[Len(t)] \in {".", "!", "?"}

\* the sentence with its period, cut at 200 characters
Punctuated(sentence) ==
    FirstN(IF EndsSentence(sentence) THEN sentence ELSE Append(sentence, "."), 200)

\* the loop over highlights[:3]; h.strip() raises on an element that is no string
RECURSIVE CleanHighlights(_, _)
CleanHighlights(highlights, clean_highlights) ==
    IF highlights = <<>> THEN [raised |-> FALSE, list |-> clean_highlights]
    ELSE IF ~Head(highlights).isstr THEN [raised |-> TRUE, list |-> <<>>]
    ELSE LET h_clean == Strip(Head(highlights).text)
             first_sentence == Strip(Head(SplitPeriods(h_clean)))
         IN  CleanHighlights(Tail(highlights),
                             IF Len(first_sentence) > 10
                             THEN Append(clean_highlights, Punctuated(first_sentence))
                             ELSE clean_highlights)

\* the sentences of a description: the pieces longer than 15 characters, trimmed
RECURSIVE LongPieces(_)
LongPieces(pieces) ==
    IF pieces = <<>> THEN <<>>
    ELSE IF Len(Strip(Head(pieces))) > 15
         THEN <<Strip(Head(pieces))>> \o LongPieces(Tail(pieces))
         ELSE LongPieces(Tail(pieces))

\* _generate_professional_highlights
generate_professional_highlights(description, category) ==
    IF description = <<>> \/ Len(Strip(description)) < 20
    THEN <<Chars("Authentic ") \o Lower(category) \o Chars(" experience curated by local experts."),
           Chars("Professional service and guidance throughout your journey."),
           Chars("Complete details available upon inquiry for personalized planning.")>>
    ELSE LET sentences == FirstN(LongPieces(SplitPeriods(description)), 3)
             highlights ==
                 [k \in 1..Len(sentences) |->
                     LET clean_sentence == Strip(Head(SplitPeriods(sentences[k])))
                     IN  Punctuated(IF Len(clean_sentence) < 30
                                    THEN clean_sentence \o Chars(" for an unforgettable experience")
                                    ELSE clean_sentence)]
             one == IF Len(highlights) < 1
                    THEN Append(highlights, Chars("Professionally curated ") \o Lower(category)
                                            \o Chars(" experience with attention to detail."))
                    ELSE highlights
             two == IF Len(one) < 2
                    THEN Append(one, Chars("Complete arrangements handled for a hassle-free and memorable journey."))
                    ELSE one
             three == IF Len(two) < 3
                      THEN Append(two, Chars("Expert guidance and support available throughout your experience."))
                      ELSE two
         IN  FirstN(three, 3)

\* the highlights of the verified item
verified_highlights(exp, db_exp) ==
    IF exp.kind = "list" /\ Len(exp.list) >= 2
    THEN LET cleaned == CleanHighlights(FirstN(exp.list, 3), <<>>)
         IN  IF cleaned.raised THEN [raised |-> TRUE, highlights |-> <<>>]
             ELSE [raised |-> FALSE,
                   highlights |-> IF Len(cleaned.list) >= 2
                                  THEN FirstN(cleaned.list, 3)
                                  ELSE generate_professional_highlights(db_exp.description,
                                                                        db_exp.category)]
    ELSE [raised |-> FALSE,
          highlights |-> generate_professional_highlights(db_exp.description, db_exp.category)]

\* the highlights the returned payload has for the record: the verified ones, or
\* those of _create_fallback_response when the verification raised
returned_highlights(exp, db_exp) ==
    LET v == verified_highlights(exp, db_exp)
    IN  IF v.raised
        THEN generate_professional_highlights(db_exp.description, db_exp.category)
        ELSE v.highlights

Highlight(text) == [isstr |-> TRUE, text |-> text]

\* generated highlights: too short, just long enough, two sentences, padded and
\* exclaimed, long without a period, and a JSON number
GeneratedHighlight ==
    {Highlight(Body(10)), Highlight(Body(11)),
     Highlight(Chars("Sunrise over the bay. Then breakfast")),
     Highlight(Chars("  What a view from the top!  ")),
     Highlight(Body(250)),
     [isstr |-> FALSE, text |-> <<>>]}

\* exp.get('highlights', []): no key, a list, or a JSON value that is no list
GeneratedHighlights ==
    {[kind |-> "missing", list |-> <<>>], [kind |-> "other", list |-> <<>>]}
        \cup {[kind |-> "list", list |-> l] :
                 l \in UNION {[1..n -> GeneratedHighlight] : n \in 0..MaxHighlights}}

\* descriptions: empty, short, one sentence, four sentences, one sentence past 200
Descriptions ==
    {<<>>, Chars("Nice."), Chars("A calm walk by the lake"),
     Chars("Paddle down the river with a guide. Lunch on a sand bank. Swim in the pools below the falls. Drive back at dusk."),
     Body(250) \o Chars(". Bring water.")}

InitHighlights ==
    /\ Idle
    /\ fin \in [exp : GeneratedHighlights,
                db_exp : [description : Descriptions, category : {Chars("Adventure")}]]
    /\ fout = NotApplied

ApplyHighlights ==
    /\ ~fout.done
    /\ fout' = [done |-> TRUE,
                raised |-> verified_highlights(fin.exp, fin.db_exp).raised,
                highlights |-> returned_highlights(fin.exp, fin.db_exp)]
    /\ UNCHANGED <<fin, Engine>>

SpecHighlights == InitHighlights /\ [][ApplyHighlights]_vars

(***************************************************************************)
(* C33: which generated highlights are kept, and what a highlight is       *)
(***************************************************************************)
SynthesizedHighlights ==
    generate_professional_highlights(fin.db_exp.description, fin.db_exp.category)

\* a generated highlight survives the clean-up: it is a string whose first sentence,
\* trimmed, is longer than 10 characters
Survives(h) ==
    h.isstr /\ Len(Strip(Head(SplitPeriods(Strip(h.text))))) > 10

FirstThree == FirstN(fin.exp.list, 3)

Survivors == Cardinality({k \in 1..Len(FirstThree) : Survives(FirstThree[k])})

GeneratedKept == fout.highlights # SynthesizedHighlights

WellFormedHighlight(h) == Len(h) <= 200 /\ EndsSentence(h)

\* C33: generated highlights are kept only if at least 2 of the first 3 survive the
\* clean-up, and otherwise exactly 3 synthesized highlights are used; every item has
\* 2 or 3 highlights, each at most 200 characters long and ending in terminal
\* punctuation; the synthesizer returns exactly 3 for every description.
C33_HighlightsWellFormed ==
    fout.done =>
        /\ GeneratedKept => (fin.exp.kind = "list" /\ Survivors >= 2)
        /\ ~GeneratedKept => Len(fout.highlights) = 3
        /\ Len(fout.highlights) \in {2, 3}
        /\ \A k \in 1..Len(fout.highlights) : WellFormedHighlight(fout.highlights[k])
        /\ Len(SynthesizedHighlights) = 3

\* two generated highlights survived and were kept, one of them cut to its first sentence
C33_Witness ==
    /\ fout.done
    /\ GeneratedKept
    /\ Survivors = 2
    /\ Len(fout.highlights) = 2
    /\ fout.highlights[1] = Chars("Sunrise over the bay.")

(***************************************************************************)
(* C34: the engine instance of a client outlives its connections           *)
(***************************************************************************)
\* the steps that process a turn or a clear for the client of the step
TurnOrClear == last' \in {"chat", "finish", "clear_memory", "rest_clear"}

\* C34: an engine instance is created for a client on its first connect and is kept
\* across disconnect and reconnect: no step removes an instance, a disconnect or a
\* reconnect leaves the conversation of the instance as it was, and the conversation
\* changes only by a turn or a clear of that client, so the next message is handled
\* on the state the client's last processed turn left.
C34_InstanceRetained ==
    [][\A c \in Clients :
          /\ ~net.ai_instances[c].present =>
                (net'.ai_instances[c].present <=> (last' = "connect" /\ net'.event.client_id = c))
          /\ net.ai_instances[c].present =>
                /\ net'.ai_instances[c].present
                /\ net'.ai_instances[c].cd # net.ai_instances[c].cd =>
                      (TurnOrClear /\ Actor(net, net') = c)]_vars

\* a client said goodbye, disconnected and connected again: its instance still holds
\* the exchange
C34_Witness ==
    /\ last = "connect"
    /\ net.count = 4
    /\ net.open = {net.event.socket}
    /\ \E k \in 1..Len(net.sent) : net.sent[k].type = "farewell"
    /\ LET h == net.ai_instances[net.event.client_id].cd.history
       IN  /\ h # <<>>
           /\ h[Len(h)].role = "assistant"
           /\ h[Len(h)].content = Farewell("chabot")
           /\ h[Len(h)].timestamp = now - 3

(***************************************************************************)
(* C35: user turns and the assistant turns that answer them                *)
(***************************************************************************)
\* the turns of one call carry the time of the call
Answers(a, u) == u.role = "user" /\ u.timestamp = a.timestamp

RecordedOnce(history) ==
    \A j, k \in 1..Len(history) :
        (history[j].role = "user" /\ history[k].role = "user"
            /\ history[j].timestamp = history[k].timestamp) => j = k

AnswersFollowQuestions(history) ==
    \A k \in 1..Len(history) :
        history[k].role = "assistant" => (k > 1 /\ Answers(history[k], history[k - 1]))

\* C35: in the history each user message is recorded exactly once and each assistant
\* turn is immediately preceded by the user turn it answers, after any sequence of
\* turns, failed turns and history eviction included.
C35_HistoryPaired ==
    /\ RecordedOnce(conversation_data.history)
    /\ AnswersFollowQuestions(conversation_data.history)

\* chatbot.py after a turn whose generator failed and a turn that was saved: the
\* size limit cut the history in the middle of an exchange
C35_Witness ==
    /\ engine = "chatbot"
    /\ last = "message"
    /\ Len(conversation_data.history) = MAX_CONVERSATION_HISTORY
    /\ conversation_data.history[1].role = "assistant"
    /\ RecordedOnce(conversation_data.history)

(***************************************************************************)
(* C36: the message counter                                                *)
(***************************************************************************)
ReportedTotal == get_conversation_stats(store, now, TRUE).total_messages

\* C36: whenever a call has returned, on any path, the total_messages counter of the
\* state equals the length of the in-memory history, and so does the total_messages
\* that the statistics report from the store.
C36_TotalIsHistoryLength ==
    last = "message" =>
        /\ conversation_data.total_messages = Len(conversation_data.history)
        /\ ReportedTotal = Len(conversation_data.history)

\* a turn that was answered and saved, nothing failing, from the empty state: the
\* counter and the statistics both give the length of the history
C36_Witness ==
    /\ last = "message"
    /\ normal
    /\ turn.write = "ok"
    /\ Len(conversation_data.history) >= 2
    /\ conversation_data.total_messages = Len(conversation_data.history)
    /\ ReportedTotal = Len(conversation_data.history)

(***************************************************************************)
(* C37: the previously discussed experiences                               *)
(***************************************************************************)
Discussed == conversation_data.previously_discussed_experiences

\* the assistant turns of the history whose payload has an item equal to x
TurnsRecommending(x) ==
    {k \in 1..Len(conversation_data.history) :
        /\ conversation_data.history[k].role = "assistant"
        /\ \E j \in 1..Len(conversation_data.history[k].experience_data.experiences) :
              conversation_data.history[k].experience_data.experiences[j] = x}

\* C37: the previously-discussed list never holds two entries with the same catalog
\* id: an item recommended on several turns is in the list once.
C37_DiscussedOnce == DistinctIds(Discussed)

\* chabot.py recommended the same item, field for field, on two turns and the list
\* holds it once
C37_Witness ==
    /\ engine = "chabot"
    /\ last = "message"
    /\ Len(Discussed) = 1
    /\ Cardinality(TurnsRecommending(Discussed[1])) = 2

(***************************************************************************)
(* One engine instance whose turn is suspended at its generator calls      *)
(* while clear_conversation_memory runs                                    *)
(***************************************************************************)
NoSuspendedTurn == [message |-> "", began |-> 0, cleared |-> FALSE, cleared_at |-> 0]

InitRace ==
    /\ engine \in {"chatbot", "chabot"}
    /\ prior \in PriorExchanges
    /\ store = Earlier(engine, prior).store
    /\ conversation_data = load_conversation(store, prior + 1, TRUE)
    /\ now = prior + 1
    /\ turns = 0
    /\ normal = TRUE
    /\ last = "init"
    /\ ret = NoReturn
    /\ turn = NoTurn
    /\ net = NoNet
    /\ fin = <<>>
    /\ fout = NoSuspendedTurn

\* the message reaches an await: the turn is suspended with its user turn appended
\* and its preferences extracted
Awaits(m) ==
    /\ IsString(m) /\ ~ExitIntent[m]
    /\ ~build_context_raises(heard_and_profiled(conversation_data, m, now).history)

\* detect_intent_and_respond up to its first await, or to its end when it has none
BeginTurn ==
    /\ turns < MaxRaceTurns
    /\ fin = <<>>
    /\ \E m \in Messages :
          IF Awaits(m)
          THEN /\ conversation_data' = heard_and_profiled(conversation_data, m, now)
               /\ fin' = <<[message |-> m, began |-> now, cleared |-> FALSE, cleared_at |-> 0]>>
               /\ last' = "begin"
               /\ UNCHANGED <<store, ret, turn, turns, normal, fout>>
          ELSE \E env \in Environments[m] :
                  LET r == detect_intent_and_respond(engine, conversation_data, store, m, env, now)
                  IN  /\ conversation_data' = r.cd
                      /\ store' = r.store
                      /\ ret' = [text |-> r.text, payload |-> r.payload, farewell |-> r.farewell,
                                 raised |-> r.raised]
                      /\ turn' = TurnRecord(m, env, r)
                      /\ turns' = turns + 1
                      /\ last' = "message"
                      /\ fout' = NoSuspendedTurn
                      /\ UNCHANGED <<fin, normal>>
    /\ now' = now + 1
    /\ UNCHANGED <<engine, prior, net>>

\* clear_conversation_memory, between two turns or while one is suspended
\* (one clear per suspended turn, and no clear right after a clear: a second one
\* would find the state the first one left)
ClearMeanwhile ==
    /\ \E delOk \in BOOLEAN, readOk \in BOOLEAN :
          LET c == clear_conversation_memory(store, now, delOk, readOk)
          IN  /\ store' = c.store
              /\ conversation_data' = c.cd
    /\ fin' = IF fin = <<>> THEN fin
              ELSE <<[fin[1] EXCEPT !.cleared = TRUE, !.cleared_at = now]>>
    /\ fin # <<>> => ~fin[1].cleared
    /\ fin = <<>> => last # "clear"
    /\ normal' = FALSE
    /\ last' = "clear"
    /\ now' = now + 1
    /\ UNCHANGED <<engine, prior, turns, ret, turn, fout, net>>

\* the generator has answered: the rest of detect_intent_and_respond, on the
\* conversation_data the instance has now
EndTurn ==
    /\ fin # <<>>
    /\ \E env \in Environments[fin[1].message] :
          LET r == Catch(answer(engine, conversation_data, store, fin[1].message, env, now,
                                Classified))
          IN  /\ conversation_data' = r.cd
              /\ store' = r.store
              /\ ret' = [text |-> r.text, payload |-> r.payload, farewell |-> r.farewell,
                         raised |-> r.raised]
              /\ turn' = TurnRecord(fin[1].message, env, r)
    /\ fout' = fin[1]
    /\ fin' = <<>>
    /\ turns' = turns + 1
    /\ now' = now + 1
    /\ last' = "end"
    /\ UNCHANGED <<engine, prior, normal, net>>

NextRace == BeginTurn \/ ClearMeanwhile \/ EndTurn

SpecRace == InitRace /\ [][NextRace]_vars

(***************************************************************************)
(* C38: a clear while a turn is suspended                                  *)
(***************************************************************************)
\* the turn that has just ended was suspended when the memory was cleared
ClearedWhileSuspended == last = "end" /\ fout.cleared

\* nothing of the conversation: no turn, no preference, no discussed item
Blank(cd) ==
    /\ cd.history = <<>>
    /\ cd.user_profile = DefaultConversationData(0).user_profile
    /\ cd.previously_discussed_experiences = <<>>

\* the turn and nothing older: its user turn, then its assistant turn
HoldsTheTurn(cd) ==
    /\ Len(cd.history) >= 2
    /\ cd.history[Len(cd.history)].role = "assistant"
    /\ cd.history[Len(cd.history)].content = ret.text
    /\ cd.history[Len(cd.history) - 1].role = "user"
    /\ cd.history[Len(cd.history) - 1].content = fout.message
    /\ \A k \in 1..Len(cd.history) :
          /\ cd.history[k].role = "assistant" => (k > 1 /\ cd.history[k - 1].role = "user")
          /\ cd.history[k].content \in {fout.message, ret.text}
          /\ cd.history[k].timestamp >= fout.began
    /\ \A k \in 1..Len(cd.previously_discussed_experiences) :
          \E j \in 1..Len(ret.payload.experiences) :
              cd.previously_discussed_experiences[k].id = ret.payload.experiences[j].id

Persisted == IF store.state = "ok" THEN store.data ELSE DefaultConversationData(0)

\* C38: when clear_conversation_memory ran while a turn of the client was suspended at
\* a generator call and both have completed, the in-memory state and the persisted
\* record are each either blank or hold that turn completely, its user turn followed
\* by its assistant turn, and nothing from before the clear.
C38_ClearDuringTurn ==
    ClearedWhileSuspended =>
        /\ Blank(conversation_data) \/ HoldsTheTurn(conversation_data)
        /\ Blank(Persisted) \/ HoldsTheTurn(Persisted)

\* chabot.py, an earlier conversation on file: the memory was cleared while the turn
\* waited, and the state and the file hold the turn's two user entries and its answer
C38_Witness ==
    /\ ClearedWhileSuspended
    /\ engine = "chabot"
    /\ prior > 0
    /\ store.state = "ok"
    /\ HoldsTheTurn(conversation_data)
    /\ HoldsTheTurn(Persisted)

(***************************************************************************)
(* C39: a reply goes to the websocket its message arrived on               *)
(***************************************************************************)
\* the websocket on which the chat message answered by this step arrived, and the
\* number of that message
Answered ==
    IF last' = "finish"
    THEN [socket |-> Finishing, seq |-> net.pending[Finishing].seq]
    ELSE [socket |-> net'.event.socket, seq |-> net'.event.seq]

\* the step ends a chat turn with a reply: an exit message, or the rest of a turn
ProducesReply ==
    \/ last' = "finish"
    \/ last' = "chat" /\ ExitIntent[net'.event.message]
                      /\ net.ai_instances[net'.event.client_id].present

RepliesIn(frames) ==
    {k \in 1..Len(frames) : frames[k].type \in {"response", "farewell", "error"}}

\* C39: every reply frame produced for a chat message is sent on the websocket on
\* which the message arrived and is not dropped while that websocket is open, also
\* when two websockets are open under one client id and one of them disconnects.
C39_ReplyToSender ==
    [][(ProducesReply /\ Answered.socket \in net'.open) =>
          /\ Cardinality(RepliesIn(NewFrames)) = 1
          /\ \A k \in RepliesIn(NewFrames) :
                NewFrames[k].to = Answered.socket /\ NewFrames[k].for = Answered.seq]_vars

\* one websocket under the client id: the turn ended and its reply went to the
\* websocket the message came from
C39_Witness ==
    /\ last = "finish"
    /\ Len(net.sent) >= 3
    /\ net.sent[Len(net.sent)].type = "response"
    /\ net.sent[Len(net.sent)].to \in net.open
    /\ ClientOf[net.sent[Len(net.sent)].to] = "B"
    /\ \E k \in 1..Len(net.sent) :
          /\ net.sent[k].type = "typing"
          /\ net.sent[k].for = net.sent[Len(net.sent)].for
          /\ net.sent[k].to = net.sent[Len(net.sent)].to

(***************************************************************************)
(* C40: a connected client has an engine instance                          *)
(***************************************************************************)
Registered == {c \in Clients : net.active_connections[c] # "none"}

NotInitializedSent ==
    \E k \in 1..Len(net.sent) : net.sent[k].message = NotInitializedFrame.message

====
